---- MODULE Spec2Model ----
(***************************************************************************)
(* Verification model of the bulker SQL layer:                             *)
(*   - AbstractSQLStream (implementations/sql/abstract.go): the shared     *)
(*     stream state and its preprocess / postConsume / postComplete steps; *)
(*   - the warehouse adapters ClickHouse, Postgres and BigQuery (two       *)
(*     revisions of the BigQuery adapter are part of the repository).      *)
(* Every sub-system has its own variables and its own specification; a     *)
(* specification keeps the variables of the other sub-systems at rest.     *)
(***************************************************************************)
EXTENDS Integers, Sequences, FiniteSets, TLC

VARIABLES
    \* ---- AbstractSQLStream ----
    opts,       \* stream options given to newAbstractStream: [merge, pk]
    newErr,     \* error returned by newAbstractStream
    state,      \* ps.state (bulker.State)
    pc,         \* "idle", or "consume" between preprocess and postConsume
    pend,       \* error of the running Consume call so far
    call,       \* the last method call: its name, argument, state before, results
    nErrors,    \* number of Consume calls that returned an error
    nRows,      \* number of objects that passed preprocess
    \* ---- Complete of a Batch stream: staging file -> LoadTable -> commit ----
    bAdapter,   \* "clickhouse" or "postgres"
    bFile,      \* the rows of the local staging file, in file order
    bDest0,     \* the committed rows of the destination table before Complete
    bDest,      \* the committed rows of the destination table
    bOuterTx,   \* rows written inside the stream's transaction (OpenTx), not committed
    bInnerTx,   \* rows written inside the transaction LoadTable opened itself
    bPc,        \* the step Complete is at
    bIdx,       \* number of file rows LoadTable has executed
    bErr,       \* the error Complete ends with
    \* ---- ReplaceTable(target "t", replacement "tmp", dropOldTable) ----
    rAdapter,   \* "clickhouse", "clickhouse_cluster" or "bigquery"
    rDropOld,   \* the dropOldTable argument
    rTables0,   \* the tables before the call
    rTables,    \* table name -> its rows, or NoTable
    rDist,      \* ClickHouse cluster: dist_<name> -> the local table it reads, or NoTable
    rPc,        \* the step ReplaceTable is at
    rErr,       \* the error ReplaceTable returned
    \* ---- CopyTables(targetTable, sourceTable, merge) ----
    cAdapter,   \* "bigquery", "bigquery_v1" (the earlier revision), "clickhouse", "postgres"
    cMerge,     \* the merge argument
    cDst0,      \* the rows of the target table before the call
    cDst,       \* the rows of the target table
    cSrc,       \* the rows of the source table
    cPc,        \* "start" or "done"
    cErr,       \* the error CopyTables returned
    \* ---- CreateTable / PatchTableSchema ----
    sAdapter,   \* "bigquery", "clickhouse" or "clickhouse_cluster"
    sTable,     \* the table in the warehouse: [exists, fields]
    sDist,      \* ClickHouse cluster: the Distributed table dist_<name>
    sCall,      \* the last call: [op, cols, pre, err]
    sLabels,    \* BigQuery: the labels of the table, a set of [k, v]
    sPk,        \* the primary key part of the Table argument of the last call
    sGot,       \* what the last GetTableSchema returned
    \* ---- preprocess of one object and the Insert statement built for it ----
    hAdapter,   \* "clickhouse" or "postgres"
    hOverrides, \* the columnTypesOption of the stream: field -> SQL type, or Absent
    hHeader,    \* the types observed so far: field -> join of the types, or Absent
    hObject,    \* the last object given to preprocess: field -> type of its value
    hTable,     \* the table preprocess returned for it: field -> SQLColumn
    hHolders,   \* the placeholders of the Insert statement: field -> text
    hPc,        \* "start", "insert" after preprocess, "idle" after Insert
    \* ---- the type of one field while its values are consumed ----
    jValues,    \* the types of three values of the field
    jLeft,      \* the positions of the values not consumed yet
    jType,      \* the type of the field so far
    \* ---- init() of the BigQuery adapter: the two type mappings ----
    tOrder,                      \* the keys of bigqueryTypes the range loop has visited, in order
    bigqueryTypeMapping,         \* DataType -> SQL type, Absent while not set
    bigqueryReverseTypeMapping,  \* SQL type -> DataType, Absent while not set
    \* ---- GetTableSchema(tableName) ----
    gAdapter,   \* "bigquery", "bigquery_v1", "postgres" or "clickhouse"
    gName,      \* the tableName argument
    gTable,     \* the table of that name in the warehouse: [exists, fields]
    gKey,       \* Postgres: its primary key constraint
    gGot,       \* what the last GetTableSchema returned
    \* ---- BigQuery.CreateStream(id, tableName, mode, streamOptions...) ----
    kAdapter,   \* "bigquery" (bigquery.go) or "bigquery_v1" (part_002)
    kCall,      \* the arguments of the last CreateStream
    kGot,       \* what it returned: [stream, err]
    \* ---- staging files of the streams open at the same time ----
    fAdapter,   \* "bigquery", "clickhouse" or "postgres"
    fStreams,   \* slot -> [status, id, tableName, mode, file, written]
    fDisk,      \* names of the files that exist in the local directory
    fHandles,   \* names opened by LoadTable and never closed
    \* ---- BigQuery identifier policies ----
    nPolicy,    \* "table" (tableNameFunc) or "column" (columnNameFunc)
    nIdent,     \* an identifier
    nOut,       \* the policy applied to it once, then to its own result
    nColumns,   \* the column names of a Table given to CreateTable
    nSchema,    \* the field names of the schema CreateTable sent
    \* ---- OpenTx and the wrapper it returns ----
    xAdapter,   \* "bigquery", "bigquery_v1", "clickhouse", "clickhouse_cluster", "postgres"
    xTx,        \* the wrapper OpenTx returned: [kind, pending]
    xDb,        \* the rows in the warehouse
    xCall,      \* the last call on the wrapper: [op, before]
    \* ---- BigQuery.Insert(table, merge, objects...) ----
    iObjects,   \* the objects argument
    iPos,       \* how many objects the loop has taken
    iItems,     \* the items slice
    iCalls,     \* the insertItems calls made: [items, ok]
    iErr,       \* the error Insert returned
    iPc,        \* "loop", "last" or "done"
    \* ---- TableHelper cache and the commit of a batch stream ----
    eAdapter,   \* "postgres" (DDL inside the transaction) or "bigquery" (no transaction)
    eDesired,   \* the columns of the desired table
    eWarehouse, \* the committed columns of the table; {} when there is no table
    eTxCols,    \* columns created inside the open transaction
    eCache,     \* the cached actual table: [known, cols]
    eAttempts,  \* errors of the commit attempts made so far
    eLanded,    \* how many times the consumed rows were committed
    eState,     \* the stream's bulker.State
    ePc,        \* "open", "retry", "load" or "done"
    \* ---- BigQuery.LoadTable(targetTable, loadSource) ----
    lDest,      \* meta.Schema of the destination table: its field names in order
    lColumns,   \* the column names of targetTable
    lSchema,    \* source.Schema of the load job that was started
    lJob,       \* whether a load job was started
    lErr,       \* the error LoadTable returned
    lPc,        \* "start" or "done"
    \* ---- Postgres.LoadTable(targetTable, loadSource) of a CSV file ----
    pFile,      \* the records of the staging file, the header row first
    pPos,       \* the number of records the csv.Reader has consumed
    pSent,      \* the argument lists given to stmt.ExecContext, in order
    pFault,     \* whether a read or an execution reported an error
    pErr,       \* the error LoadTable returned
    pPc,        \* "start", "header", "rows" or "done"
    \* ---- DropTable(tableName, ifExists) ----
    dAdapter,   \* "bigquery", "bigquery_v1" (part_002), "clickhouse" or "clickhouse_cluster"
    dTables,    \* the names of the tables in the warehouse
    dCall,      \* the last call: [name, ifExists, pre, err, fault]
    \* ---- BigQuery.DeletePartition(tableName, datePartition) ----
    qGranularity, \* datePartition.Granularity
    qValue,       \* datePartition.Value: [y, m, d, h]
    qTried,       \* the Delete calls made: [id, outcome], outcome "ok", "404" or "error"
    qErr,         \* the error DeletePartition returned
    qPc,          \* "loop" or "done"
    \* ---- BigQuery.CreateTable: the TimePartitioning of the table metadata ----
    mAdapter,   \* "bigquery" (bigquery.go) or "bigquery_v1" (part_002)
    mTable,     \* the Table argument: [Field, Granularity, TimestampColumn, Temporary]
    mMeta,      \* the TableMetadata given to Create: [TimePartitioning, Expires]
    mErr,       \* the error CreateTable returned
    mPc,        \* "start" or "done"
    \* ---- AbstractSQLStream.init ----
    inited,     \* ps.inited of every stream
    initLog,    \* the init calls made: [stream, called, dbErr, err]
    \* ---- ClickHouse.Insert / ClickHouse.LoadTable: the transaction they open ----
    uOp,        \* "Insert" or "LoadTable"
    uHttpMode,  \* ch.httpMode
    uRows,      \* the objects of Insert, or the lines of the file of LoadTable
    uTx,        \* the tx variable: "unset", "nil", "open", "committed" or "rolled_back"
    uLog,       \* the statements prepared and executed, in order
    uDest,      \* the committed rows of the destination table
    uErr,       \* the err variable of the call, returned when uPc is "done"
    uPc,        \* "start", "prepare", "rows", "done", or "panic" after a nil dereference
    \* ---- BigQuery.Delete(tableName, deleteConditions) ----
    wConditions, \* deleteConditions: [Conditions, JoinCondition]
    wTable,      \* the rows of the table: field -> value or Null
    wCall,       \* the call: [text, values, ran, err]
    wPc,         \* "start" or "done"
    \* ---- BigQuery.Ping ----
    zClient,    \* whether bq.client is set
    zCalls      \* the Ping calls made: [hadClient, probe, created, err]

streamVars == <<opts, newErr, state, pc, pend, call, nErrors, nRows>>
batchVars == <<bAdapter, bFile, bDest0, bDest, bOuterTx, bInnerTx, bPc, bIdx, bErr>>

replVars == <<rAdapter, rDropOld, rTables0, rTables, rDist, rPc, rErr>>

copyVars == <<cAdapter, cMerge, cDst0, cDst, cSrc, cPc, cErr>>

schemaVars == <<sAdapter, sTable, sDist, sCall, sLabels, sPk, sGot>>

headerVars == <<hAdapter, hOverrides, hHeader, hObject, hTable, hHolders, hPc>>

joinVars == <<jValues, jLeft, jType>>

typesVars == <<tOrder, bigqueryTypeMapping, bigqueryReverseTypeMapping>>

getVars == <<gAdapter, gName, gTable, gKey, gGot>>

createVars == <<kAdapter, kCall, kGot>>

fileVars == <<fAdapter, fStreams, fDisk, fHandles>>

nameVars == <<nPolicy, nIdent, nOut, nColumns, nSchema>>

txVars == <<xAdapter, xTx, xDb, xCall>>

insertVars == <<iObjects, iPos, iItems, iCalls, iErr, iPc>>

ensureVars == <<eAdapter, eDesired, eWarehouse, eTxCols, eCache, eAttempts, eLanded, eState, ePc>>

loadVars == <<lDest, lColumns, lSchema, lJob, lErr, lPc>>

pgLoadVars == <<pFile, pPos, pSent, pFault, pErr, pPc>>

dropVars == <<dAdapter, dTables, dCall>>

partVars == <<qGranularity, qValue, qTried, qErr, qPc>>

metaVars == <<mAdapter, mTable, mMeta, mErr, mPc>>

dbVars == <<inited, initLog>>

chTxVars == <<uOp, uHttpMode, uRows, uTx, uLog, uDest, uErr, uPc>>

whenVars == <<wConditions, wTable, wCall, wPc>>

pingVars == <<zClient, zCalls>>

vars == <<streamVars, batchVars, replVars, copyVars, schemaVars, headerVars, joinVars, typesVars, getVars, createVars, fileVars, nameVars, txVars, insertVars, ensureVars, loadVars, pgLoadVars, dropVars, partVars, metaVars, dbVars, chTxVars, whenVars, pingVars>>

nonStreamVars == <<batchVars, replVars, copyVars, schemaVars, headerVars, joinVars, typesVars, getVars, createVars, fileVars, nameVars, txVars, insertVars, ensureVars, loadVars, pgLoadVars, dropVars, partVars, metaVars, dbVars, chTxVars, whenVars, pingVars>>
nonBatchVars == <<streamVars, replVars, copyVars, schemaVars, headerVars, joinVars, typesVars, getVars, createVars, fileVars, nameVars, txVars, insertVars, ensureVars, loadVars, pgLoadVars, dropVars, partVars, metaVars, dbVars, chTxVars, whenVars, pingVars>>
nonReplVars == <<streamVars, batchVars, copyVars, schemaVars, headerVars, joinVars, typesVars, getVars, createVars, fileVars, nameVars, txVars, insertVars, ensureVars, loadVars, pgLoadVars, dropVars, partVars, metaVars, dbVars, chTxVars, whenVars, pingVars>>
nonCopyVars == <<streamVars, batchVars, replVars, schemaVars, headerVars, joinVars, typesVars, getVars, createVars, fileVars, nameVars, txVars, insertVars, ensureVars, loadVars, pgLoadVars, dropVars, partVars, metaVars, dbVars, chTxVars, whenVars, pingVars>>
nonSchemaVars == <<streamVars, batchVars, replVars, copyVars, headerVars, joinVars, typesVars, getVars, createVars, fileVars, nameVars, txVars, insertVars, ensureVars, loadVars, pgLoadVars, dropVars, partVars, metaVars, dbVars, chTxVars, whenVars, pingVars>>
nonHeaderVars == <<streamVars, batchVars, replVars, copyVars, schemaVars, joinVars, typesVars, getVars, createVars, fileVars, nameVars, txVars, insertVars, ensureVars, loadVars, pgLoadVars, dropVars, partVars, metaVars, dbVars, chTxVars, whenVars, pingVars>>
nonJoinVars == <<streamVars, batchVars, replVars, copyVars, schemaVars, headerVars, typesVars, getVars, createVars, fileVars, nameVars, txVars, insertVars, ensureVars, loadVars, pgLoadVars, dropVars, partVars, metaVars, dbVars, chTxVars, whenVars, pingVars>>
nonTypesVars == <<streamVars, batchVars, replVars, copyVars, schemaVars, headerVars, joinVars, getVars, createVars, fileVars, nameVars, txVars, insertVars, ensureVars, loadVars, pgLoadVars, dropVars, partVars, metaVars, dbVars, chTxVars, whenVars, pingVars>>
nonGetVars == <<streamVars, batchVars, replVars, copyVars, schemaVars, headerVars, joinVars, typesVars, createVars, fileVars, nameVars, txVars, insertVars, ensureVars, loadVars, pgLoadVars, dropVars, partVars, metaVars, dbVars, chTxVars, whenVars, pingVars>>
nonCreateVars == <<streamVars, batchVars, replVars, copyVars, schemaVars, headerVars, joinVars, typesVars, getVars, fileVars, nameVars, txVars, insertVars, ensureVars, loadVars, pgLoadVars, dropVars, partVars, metaVars, dbVars, chTxVars, whenVars, pingVars>>
nonFileVars == <<streamVars, batchVars, replVars, copyVars, schemaVars, headerVars, joinVars, typesVars, getVars, createVars, nameVars, txVars, insertVars, ensureVars, loadVars, pgLoadVars, dropVars, partVars, metaVars, dbVars, chTxVars, whenVars, pingVars>>
nonNameVars == <<streamVars, batchVars, replVars, copyVars, schemaVars, headerVars, joinVars, typesVars, getVars, createVars, fileVars, txVars, insertVars, ensureVars, loadVars, pgLoadVars, dropVars, partVars, metaVars, dbVars, chTxVars, whenVars, pingVars>>
nonTxVars == <<streamVars, batchVars, replVars, copyVars, schemaVars, headerVars, joinVars, typesVars, getVars, createVars, fileVars, nameVars, insertVars, ensureVars, loadVars, pgLoadVars, dropVars, partVars, metaVars, dbVars, chTxVars, whenVars, pingVars>>
nonInsertVars == <<streamVars, batchVars, replVars, copyVars, schemaVars, headerVars, joinVars, typesVars, getVars, createVars, fileVars, nameVars, txVars, ensureVars, loadVars, pgLoadVars, dropVars, partVars, metaVars, dbVars, chTxVars, whenVars, pingVars>>
nonEnsureVars == <<streamVars, batchVars, replVars, copyVars, schemaVars, headerVars, joinVars, typesVars, getVars, createVars, fileVars, nameVars, txVars, insertVars, loadVars, pgLoadVars, dropVars, partVars, metaVars, dbVars, chTxVars, whenVars, pingVars>>
nonLoadVars == <<streamVars, batchVars, replVars, copyVars, schemaVars, headerVars, joinVars, typesVars, getVars, createVars, fileVars, nameVars, txVars, insertVars, ensureVars, pgLoadVars, dropVars, partVars, metaVars, dbVars, chTxVars, whenVars, pingVars>>
nonPgLoadVars == <<streamVars, batchVars, replVars, copyVars, schemaVars, headerVars, joinVars, typesVars, getVars, createVars, fileVars, nameVars, txVars, insertVars, ensureVars, loadVars, dropVars, partVars, metaVars, dbVars, chTxVars, whenVars, pingVars>>
nonDropVars == <<streamVars, batchVars, replVars, copyVars, schemaVars, headerVars, joinVars, typesVars, getVars, createVars, fileVars, nameVars, txVars, insertVars, ensureVars, loadVars, pgLoadVars, partVars, metaVars, dbVars, chTxVars, whenVars, pingVars>>
nonPartVars == <<streamVars, batchVars, replVars, copyVars, schemaVars, headerVars, joinVars, typesVars, getVars, createVars, fileVars, nameVars, txVars, insertVars, ensureVars, loadVars, pgLoadVars, dropVars, metaVars, dbVars, chTxVars, whenVars, pingVars>>
nonMetaVars == <<streamVars, batchVars, replVars, copyVars, schemaVars, headerVars, joinVars, typesVars, getVars, createVars, fileVars, nameVars, txVars, insertVars, ensureVars, loadVars, pgLoadVars, dropVars, partVars, dbVars, chTxVars, whenVars, pingVars>>
nonDbVars == <<streamVars, batchVars, replVars, copyVars, schemaVars, headerVars, joinVars, typesVars, getVars, createVars, fileVars, nameVars, txVars, insertVars, ensureVars, loadVars, pgLoadVars, dropVars, partVars, metaVars, chTxVars, whenVars, pingVars>>
nonChTxVars == <<streamVars, batchVars, replVars, copyVars, schemaVars, headerVars, joinVars, typesVars, getVars, createVars, fileVars, nameVars, txVars, insertVars, ensureVars, loadVars, pgLoadVars, dropVars, partVars, metaVars, dbVars, whenVars, pingVars>>
nonWhenVars == <<streamVars, batchVars, replVars, copyVars, schemaVars, headerVars, joinVars, typesVars, getVars, createVars, fileVars, nameVars, txVars, insertVars, ensureVars, loadVars, pgLoadVars, dropVars, partVars, metaVars, dbVars, chTxVars, pingVars>>
nonPingVars == <<streamVars, batchVars, replVars, copyVars, schemaVars, headerVars, joinVars, typesVars, getVars, createVars, fileVars, nameVars, txVars, insertVars, ensureVars, loadVars, pgLoadVars, dropVars, partVars, metaVars, dbVars, chTxVars, whenVars>>

(***************************************************************************)
(* Bounds of the model.                                                    *)
(***************************************************************************)
MaxCalls == 4
MaxFileRows == 3
MaxKey == 3
MaxCols == 2

\* longest identifier given to a name policy, in characters
MaxIdentLen == 3

(***************************************************************************)
(* AbstractSQLStream                                                       *)
(***************************************************************************)
NoErr == "nil"

\* errors an adapter call (Insert, LoadTable, commit ...) can hand to the stream
Errs == {"err1", "err2"}

\* the objects given to Consume: one that ProcessEvents accepts, one it rejects
Objects == {"good", "bad"}

PkCols == {"id"}

\* the zero value of bulker.State, AbstractSQLStream{}.state
ZeroState ==
    [Status |-> "", ProcessedRows |-> 0, SuccessfulRows |-> 0,
     ErrorRowIndex |-> 0, LastError |-> NoErr]

\* newAbstractStream without the check of the primary key option
newAbstractStream_noPkCheck(mergeRows, primaryKey) ==
    [err |-> NoErr, state |-> [ZeroState EXCEPT !.Status = "Active"]]

\* abstract.go:28-42
newAbstractStream(mergeRows, primaryKey) ==
    IF mergeRows /\ Cardinality(primaryKey) = 0
    THEN [err |-> "merge_requires_pk", state |-> ZeroState]
    ELSE [err |-> NoErr, state |-> [ZeroState EXCEPT !.Status = "Active"]]

\* ProcessEvents(tableName, {object}): fails on an object it cannot flatten
ProcessEvents(object) ==
    IF object = "bad" THEN "process_events_error" ELSE NoErr

\* preprocess counting the row before it looks at the status
preprocess_countsFirst(st, object) ==
    IF st.Status # "Active"
    THEN [table |-> "nil", err |-> "stream_not_active",
          state |-> [st EXCEPT !.ProcessedRows = @ + 1]]
    ELSE IF ProcessEvents(object) # NoErr
    THEN [table |-> "nil", err |-> ProcessEvents(object), state |-> st]
    ELSE [table |-> "table", err |-> NoErr,
          state |-> [st EXCEPT !.ProcessedRows = @ + 1]]

\* abstract.go:44-60
preprocess(st, object) ==
    IF st.Status # "Active"
    THEN [table |-> "nil", err |-> "stream_not_active", state |-> st]
    ELSE IF ProcessEvents(object) # NoErr
    THEN [table |-> "nil", err |-> ProcessEvents(object), state |-> st]
    ELSE [table |-> "table", err |-> NoErr,
          state |-> [st EXCEPT !.ProcessedRows = @ + 1]]

\* postConsume taking the index of the failed row from the successful rows
postConsume_wrongIndex(st, err) ==
    IF err # NoErr
    THEN [err |-> err,
          state |-> [st EXCEPT !.ErrorRowIndex = st.SuccessfulRows,
                               !.LastError = err]]
    ELSE [err |-> NoErr,
          state |-> [st EXCEPT !.SuccessfulRows = @ + 1]]

\* abstract.go:62-71
postConsume(st, err) ==
    IF err # NoErr
    THEN [err |-> err,
          state |-> [st EXCEPT !.ErrorRowIndex = st.ProcessedRows,
                               !.LastError = err]]
    ELSE [err |-> NoErr,
          state |-> [st EXCEPT !.SuccessfulRows = @ + 1]]

\* postComplete that forgets to record the error
postComplete_noLastError(st, err) ==
    IF err # NoErr
    THEN [err |-> err, retState |-> [st EXCEPT !.Status = "Failed"],
          state |-> [st EXCEPT !.Status = "Failed"]]
    ELSE [err |-> err, retState |-> [st EXCEPT !.Status = "Completed"],
          state |-> [st EXCEPT !.Status = "Completed"]]

\* abstract.go:73-81
postComplete(st, err) ==
    IF err # NoErr
    THEN [err |-> err, retState |-> [st EXCEPT !.LastError = err, !.Status = "Failed"],
          state |-> [st EXCEPT !.LastError = err, !.Status = "Failed"]]
    ELSE [err |-> err, retState |-> [st EXCEPT !.Status = "Completed"],
          state |-> [st EXCEPT !.Status = "Completed"]]

NoCall == [op |-> "new", arg |-> NoErr, pre |-> ZeroState, err |-> NoErr,
           table |-> "nil", retState |-> ZeroState, insert |-> FALSE]

StreamCreate ==
    /\ opts \in [merge : BOOLEAN, pk : SUBSET PkCols]
    /\ newErr = newAbstractStream(opts.merge, opts.pk).err
    /\ state = newAbstractStream(opts.merge, opts.pk).state
    /\ pc = "idle"
    /\ pend = NoErr
    /\ call = [NoCall EXCEPT !.err = newErr, !.retState = state]
    /\ nErrors = 0
    /\ nRows = 0

\* a stream method can be called only on a stream that was created
Created == newErr = NoErr

\* Consume, first half: the shared preamble
Preprocess(object) ==
    /\ Created
    /\ pc = "idle"
    /\ nErrors + nRows < MaxCalls
    /\ LET r == preprocess(state, object) IN
        /\ state' = r.state
        /\ pend' = r.err
        /\ call' = [op |-> "preprocess", arg |-> object, pre |-> state,
                    err |-> r.err, table |-> r.table, retState |-> r.state,
                    insert |-> FALSE]
        /\ nRows' = IF r.err = NoErr THEN nRows + 1 ELSE nRows
    /\ pc' = "consume"
    /\ UNCHANGED <<opts, newErr, nErrors>>
    /\ UNCHANGED nonStreamVars

\* Consume, second half: the row's outcome goes through postConsume. When
\* preprocess failed the outcome is its error, otherwise the insert's.
PostConsume(outcome) ==
    /\ pc = "consume"
    /\ pend # NoErr => outcome = pend
    /\ LET r == postConsume(state, outcome) IN
        /\ state' = r.state
        /\ call' = [op |-> "postConsume", arg |-> outcome, pre |-> state,
                    err |-> r.err, table |-> "nil", retState |-> r.state,
                    insert |-> (pend = NoErr)]
        /\ nErrors' = IF r.err # NoErr THEN nErrors + 1 ELSE nErrors
    /\ pc' = "idle"
    /\ pend' = NoErr
    /\ UNCHANGED <<opts, newErr, nRows>>
    /\ UNCHANGED nonStreamVars

\* the end of Complete: the commit's outcome goes through postComplete
PostComplete(err) ==
    /\ Created
    /\ pc = "idle"
    /\ LET r == postComplete(state, err) IN
        /\ state' = r.state
        /\ call' = [op |-> "postComplete", arg |-> err, pre |-> state,
                    err |-> r.err, table |-> "nil", retState |-> r.retState,
                    insert |-> FALSE]
    /\ UNCHANGED <<opts, newErr, pc, pend, nErrors, nRows>>
    /\ UNCHANGED nonStreamVars

\* Abort of an active stream
Abort ==
    /\ Created
    /\ pc = "idle"
    /\ state.Status = "Active"
    /\ state' = [state EXCEPT !.Status = "Aborted"]
    /\ call' = [op |-> "abort", arg |-> NoErr, pre |-> state, err |-> NoErr,
                table |-> "nil", retState |-> state', insert |-> FALSE]
    /\ UNCHANGED <<opts, newErr, pc, pend, nErrors, nRows>>
    /\ UNCHANGED nonStreamVars

StreamNext ==
    \/ \E o \in Objects : Preprocess(o)
    \/ \E e \in Errs \cup {NoErr, pend} : PostConsume(e)
    \/ \E e \in Errs \cup {NoErr} : PostComplete(e)
    \/ Abort

(***************************************************************************)
(* Complete of a Batch (Transactional) stream.                             *)
(* Complete opens a transaction with OpenTx, calls the adapter's LoadTable *)
(* on the staging file, and commits; on any error it rolls the transaction *)
(* back.  LoadTable is modelled per adapter from its code.                 *)
(***************************************************************************)
Rows == {"r1", "r2"}

RECURSIVE SeqsUpTo(_, _)
SeqsUpTo(S, n) ==
    IF n = 0 THEN {<<>>}
    ELSE SeqsUpTo(S, n - 1) \cup
         {Append(q, x) : q \in {t \in SeqsUpTo(S, n - 1) : Len(t) = n - 1}, x \in S}

BatchStart ==
    /\ bAdapter \in {"clickhouse", "postgres"}
    /\ bFile \in SeqsUpTo(Rows, MaxFileRows)
    /\ bDest0 \in {<<>>, <<"old">>}
    /\ bDest = bDest0
    /\ bOuterTx = <<>>
    /\ bInnerTx = <<>>
    /\ bPc = "start"
    /\ bIdx = 0
    /\ bErr = NoErr

BatchIdle ==
    /\ bAdapter = "postgres"
    /\ bFile = <<>>
    /\ bDest0 = <<>>
    /\ bDest = <<>>
    /\ bOuterTx = <<>>
    /\ bInnerTx = <<>>
    /\ bPc = "idle"
    /\ bIdx = 0
    /\ bErr = NoErr

\* Complete fails with e: the stream's transaction is rolled back
CompleteFails(e) ==
    /\ bOuterTx' = <<>>
    /\ bErr' = e
    /\ bPc' = "done"

\* Complete: sqlAdapter.OpenTx
BOpenTx(ok) ==
    /\ bPc = "start"
    /\ IF ok
       THEN /\ bPc' = IF bAdapter = "clickhouse" THEN "ch_begin" ELSE "pg_prepare"
            /\ UNCHANGED <<bOuterTx, bErr>>
       ELSE CompleteFails("open_tx_failed")
    /\ UNCHANGED <<bAdapter, bFile, bDest0, bDest, bInnerTx, bIdx>>
    /\ UNCHANGED nonBatchVars

\* ClickHouse.LoadTable, part_000:466-475: a transaction of its own on
\* ch.dataSource.  The error of BeginTx is wrapped and not returned: LoadTable
\* goes on to tx.PrepareContext with a nil tx, a nil dereference.
CHBeginTx(ok) ==
    /\ bPc = "ch_begin"
    /\ bPc' = IF ok THEN "ch_prepare" ELSE "panic"
    /\ bInnerTx' = <<>>
    /\ UNCHANGED <<bAdapter, bFile, bDest0, bDest, bOuterTx, bIdx, bErr>>
    /\ UNCHANGED nonBatchVars

\* part_000:488-500: the deferred rollback of LoadTable's own transaction,
\* after which Complete fails with the error
CHLoadFails(e) ==
    /\ bInnerTx' = <<>>
    /\ CompleteFails(e)

\* part_000:502-515: tx.PrepareContext and os.Open
CHPrepare(ok) ==
    /\ bPc = "ch_prepare"
    /\ IF ok
       THEN /\ bPc' = "ch_rows"
            /\ UNCHANGED <<bInnerTx, bOuterTx, bErr>>
       ELSE CHLoadFails("load_failed")
    /\ UNCHANGED <<bAdapter, bFile, bDest0, bDest, bIdx>>
    /\ UNCHANGED nonBatchVars

\* part_000:517-537: one line of the file: decode, convertType, stmt.ExecContext
CHLoadRow(ok) ==
    /\ bPc = "ch_rows"
    /\ bIdx < Len(bFile)
    /\ IF ok
       THEN /\ bInnerTx' = Append(bInnerTx, bFile[bIdx + 1])
            /\ bIdx' = bIdx + 1
            /\ UNCHANGED <<bPc, bOuterTx, bErr>>
       ELSE /\ CHLoadFails("load_failed")
            /\ UNCHANGED bIdx
    /\ UNCHANGED <<bAdapter, bFile, bDest0, bDest>>
    /\ UNCHANGED nonBatchVars

\* part_000:539: tx.Commit() of LoadTable's own transaction: the rows become
\* part of the destination table when LoadTable returns
CHCommit(ok) ==
    /\ bPc = "ch_rows"
    /\ bIdx = Len(bFile)
    /\ IF ok
       THEN /\ bDest' = bDest \o bInnerTx
            /\ bInnerTx' = <<>>
            /\ bPc' = "loaded"
            /\ UNCHANGED <<bOuterTx, bErr>>
       ELSE /\ CHLoadFails("load_failed")
            /\ UNCHANGED bDest
    /\ UNCHANGED <<bAdapter, bFile, bDest0, bIdx>>
    /\ UNCHANGED nonBatchVars

\* Postgres.LoadTable, part_001:300-310: PrepareContext of the COPY statement
\* on p.txOrDb(ctx), the stream's transaction, and os.Open
PGPrepare(ok) ==
    /\ bPc = "pg_prepare"
    /\ IF ok
       THEN /\ bPc' = "pg_rows"
            /\ UNCHANGED <<bOuterTx, bErr>>
       ELSE CompleteFails("load_failed")
    /\ UNCHANGED <<bAdapter, bFile, bDest0, bDest, bInnerTx, bIdx>>
    /\ UNCHANGED nonBatchVars

\* part_001:313-332: one record of the file through stmt.ExecContext
PGCopyRow(ok) ==
    /\ bPc = "pg_rows"
    /\ bIdx < Len(bFile)
    /\ IF ok
       THEN /\ bOuterTx' = Append(bOuterTx, bFile[bIdx + 1])
            /\ bIdx' = bIdx + 1
            /\ UNCHANGED <<bPc, bErr>>
       ELSE /\ CompleteFails("load_failed")
            /\ UNCHANGED bIdx
    /\ UNCHANGED <<bAdapter, bFile, bDest0, bDest, bInnerTx>>
    /\ UNCHANGED nonBatchVars

\* part_001:333-338: the closing stmt.ExecContext() and stmt.Close()
PGFlush(ok) ==
    /\ bPc = "pg_rows"
    /\ bIdx = Len(bFile)
    /\ IF ok
       THEN /\ bPc' = "loaded"
            /\ UNCHANGED <<bOuterTx, bErr>>
       ELSE CompleteFails("load_failed")
    /\ UNCHANGED <<bAdapter, bFile, bDest0, bDest, bInnerTx, bIdx>>
    /\ UNCHANGED nonBatchVars

\* Complete: a step between LoadTable's return and the commit
BAfterLoad(ok) ==
    /\ bPc = "loaded"
    /\ IF ok
       THEN /\ bPc' = "commit"
            /\ UNCHANGED <<bOuterTx, bErr>>
       ELSE CompleteFails("step_failed")
    /\ UNCHANGED <<bAdapter, bFile, bDest0, bDest, bInnerTx, bIdx>>
    /\ UNCHANGED nonBatchVars

\* Complete: commit of the stream's transaction
BCommit(ok) ==
    /\ bPc = "commit"
    /\ IF ok
       THEN /\ bDest' = bDest \o bOuterTx
            /\ bOuterTx' = <<>>
            /\ bPc' = "done"
            /\ UNCHANGED bErr
       ELSE /\ CompleteFails("commit_failed")
            /\ UNCHANGED bDest
    /\ UNCHANGED <<bAdapter, bFile, bDest0, bInnerTx, bIdx>>
    /\ UNCHANGED nonBatchVars

BatchNext ==
    \/ \E ok \in BOOLEAN : BOpenTx(ok)
    \/ \E ok \in BOOLEAN : CHBeginTx(ok)
    \/ \E ok \in BOOLEAN : CHPrepare(ok)
    \/ \E ok \in BOOLEAN : CHLoadRow(ok)
    \/ \E ok \in BOOLEAN : CHCommit(ok)
    \/ \E ok \in BOOLEAN : PGPrepare(ok)
    \/ \E ok \in BOOLEAN : PGCopyRow(ok)
    \/ \E ok \in BOOLEAN : PGFlush(ok)
    \/ \E ok \in BOOLEAN : BAfterLoad(ok)
    \/ \E ok \in BOOLEAN : BCommit(ok)

(***************************************************************************)
(* ReplaceTable(target, replacement, dropOldTable) of ClickHouse (with and *)
(* without a cluster) and of BigQuery, one action per statement or job.    *)
(* The target is table "t", the replacement table "tmp".                   *)
(***************************************************************************)
\* a table that does not exist, and an existing table with its rows
NoTable == [exists |-> FALSE, rows |-> {}]

Tbl(rows) == [exists |-> TRUE, rows |-> rows]

\* no distributed table of that name
NoDist == "no_dist"

TableNames == {"t", "tmp"}

\* contents a target can have before the call, and contents of a replacement
OldContents == {Tbl({1, 2, 3}), Tbl({1})}
NewContents == {Tbl({9, 10}), Tbl({9})}

OnCluster == rAdapter = "clickhouse_cluster"

ReplaceStart ==
    /\ rAdapter \in {"clickhouse", "clickhouse_cluster", "bigquery"}
    /\ rDropOld \in BOOLEAN
    /\ \E old \in OldContents \cup {NoTable}, new \in NewContents :
          rTables0 = [n \in TableNames |-> IF n = "t" THEN old ELSE new]
    /\ rTables = rTables0
    \* part_000:277-280, 669-677: on a cluster CreateTable also creates
    \* dist_<name> as Distributed(cluster, database, <name>): it reads the local
    \* table of that name
    /\ rDist = [n \in TableNames |->
                  IF OnCluster /\ rTables0[n] # NoTable THEN n ELSE NoDist]
    /\ rPc = "start"
    /\ rErr = NoErr

ReplaceIdle ==
    /\ rAdapter = "bigquery"
    /\ rDropOld = FALSE
    /\ rTables0 = [n \in TableNames |-> NoTable]
    /\ rTables = [n \in TableNames |-> NoTable]
    /\ rDist = [n \in TableNames |-> NoDist]
    /\ rPc = "idle"
    /\ rErr = NoErr

\* the two entries of a table map exchanged (EXCHANGE TABLES a AND b)
Exchanged(f) == [n \in TableNames |-> IF n = "t" THEN f["tmp"] ELSE f["t"]]

\* a table map after RENAME TABLE tmp TO t; none is what a missing entry is
Renamed(f, none) == [n \in TableNames |-> IF n = "t" THEN f["tmp"] ELSE none]

\* a table map after DROP TABLE tmp
Dropped(f, none) == [f EXCEPT !["tmp"] = none]

\* a table map after a BigQuery copy job tmp -> t with WriteTruncate
Copied(f) == [f EXCEPT !["t"] = f["tmp"]]

ReplaceReturns(e) ==
    /\ rPc' = "done"
    /\ rErr' = e

\* part_000:618-637: EXCHANGE TABLES t AND tmp; a table-not-exist error leads
\* to the rename branch, any other error is returned
CHExchange(ok) ==
    /\ rAdapter \in {"clickhouse", "clickhouse_cluster"}
    /\ rPc = "start"
    /\ IF rTables["t"] = NoTable \/ rTables["tmp"] = NoTable
       THEN /\ ok = FALSE
            /\ rPc' = "rename"
            /\ UNCHANGED <<rTables, rErr>>
       ELSE IF ok
       THEN /\ rTables' = Exchanged(rTables)
            /\ rPc' = IF OnCluster THEN "dist_exchange"
                      ELSE IF rDropOld THEN "drop" ELSE "done"
            /\ UNCHANGED rErr
       ELSE /\ ReplaceReturns("error_replacing")
            /\ UNCHANGED rTables
    /\ UNCHANGED <<rAdapter, rDropOld, rTables0, rDist>>
    /\ UNCHANGED nonReplVars

\* part_000:622-626: RENAME TABLE tmp TO t
CHRename(ok) ==
    /\ rPc = "rename"
    /\ IF ok /\ rTables["tmp"] # NoTable /\ rTables["t"] = NoTable
       THEN /\ rTables' = Renamed(rTables, NoTable)
            /\ IF OnCluster THEN rPc' = "dist_rename" /\ UNCHANGED rErr
                            ELSE ReplaceReturns(NoErr)
       ELSE /\ ok = FALSE
            /\ ReplaceReturns("error_renaming")
            /\ UNCHANGED rTables
    /\ UNCHANGED <<rAdapter, rDropOld, rTables0, rDist>>
    /\ UNCHANGED nonReplVars

\* part_000:627-633: RENAME TABLE dist_tmp TO dist_t
CHDistRename(ok) ==
    /\ rPc = "dist_rename"
    /\ IF ok /\ rDist["tmp"] # NoDist /\ rDist["t"] = NoDist
       THEN /\ rDist' = Renamed(rDist, NoDist)
            /\ ReplaceReturns(NoErr)
       ELSE /\ ok = FALSE
            /\ ReplaceReturns("error_renaming_distributed")
            /\ UNCHANGED rDist
    /\ UNCHANGED <<rAdapter, rDropOld, rTables0, rTables>>
    /\ UNCHANGED nonReplVars

\* part_000:639-645: EXCHANGE TABLES dist_t AND dist_tmp
CHDistExchange(ok) ==
    /\ rPc = "dist_exchange"
    /\ IF ok
       THEN /\ rDist' = Exchanged(rDist)
            /\ IF rDropOld THEN rPc' = "drop" /\ UNCHANGED rErr
                           ELSE ReplaceReturns(NoErr)
       ELSE /\ ReplaceReturns("error_replacing_distributed")
            /\ UNCHANGED rDist
    /\ UNCHANGED <<rAdapter, rDropOld, rTables0, rTables>>
    /\ UNCHANGED nonReplVars

\* part_000:646-647, 585-589: DropTable(tmp, true), the local table
CHDropLocal(ok) ==
    /\ rAdapter \in {"clickhouse", "clickhouse_cluster"}
    /\ rPc = "drop"
    /\ IF ok
       THEN /\ rTables' = Dropped(rTables, NoTable)
            /\ IF OnCluster THEN rPc' = "drop_dist" /\ UNCHANGED rErr
                            ELSE ReplaceReturns(NoErr)
       ELSE /\ ReplaceReturns("drop_failed")
            /\ UNCHANGED rTables
    /\ UNCHANGED <<rAdapter, rDropOld, rTables0, rDist>>
    /\ UNCHANGED nonReplVars

\* part_000:590-592: DropTable(tmp, true), the distributed table
CHDropDist(ok) ==
    /\ rPc = "drop_dist"
    /\ IF ok
       THEN /\ rDist' = Dropped(rDist, NoDist)
            /\ ReplaceReturns(NoErr)
       ELSE /\ ReplaceReturns("drop_failed")
            /\ UNCHANGED rDist
    /\ UNCHANGED <<rAdapter, rDropOld, rTables0, rTables>>
    /\ UNCHANGED nonReplVars

\* bigquery.go:608-617: the copy job tmp -> t, WriteTruncate, CreateIfNeeded
BQCopy(ok) ==
    /\ rAdapter = "bigquery"
    /\ rPc = "start"
    /\ IF ok
       THEN /\ rTables' = Copied(rTables)
            /\ IF rDropOld THEN rPc' = "drop" /\ UNCHANGED rErr
                           ELSE ReplaceReturns(NoErr)
       ELSE /\ ReplaceReturns("copy_failed")
            /\ UNCHANGED rTables
    /\ UNCHANGED <<rAdapter, rDropOld, rTables0, rDist>>
    /\ UNCHANGED nonReplVars

\* bigquery.go:618-619, 567-588: DropTable(tmp, false)
BQDrop(ok) ==
    /\ rAdapter = "bigquery"
    /\ rPc = "drop"
    /\ IF ok
       THEN /\ rTables' = Dropped(rTables, NoTable)
            /\ ReplaceReturns(NoErr)
       ELSE /\ ReplaceReturns("drop_failed")
            /\ UNCHANGED rTables
    /\ UNCHANGED <<rAdapter, rDropOld, rTables0, rDist>>
    /\ UNCHANGED nonReplVars

ReplaceNext ==
    \/ \E ok \in BOOLEAN : CHExchange(ok)
    \/ \E ok \in BOOLEAN : CHRename(ok)
    \/ \E ok \in BOOLEAN : CHDistRename(ok)
    \/ \E ok \in BOOLEAN : CHDistExchange(ok)
    \/ \E ok \in BOOLEAN : CHDropLocal(ok)
    \/ \E ok \in BOOLEAN : CHDropDist(ok)
    \/ \E ok \in BOOLEAN : BQCopy(ok)
    \/ \E ok \in BOOLEAN : BQDrop(ok)

\* what a reader of the target gets: from the table itself, and on a
\* cluster through dist_t, which reads the local table it names
ReadLocal == rTables["t"]

ReadDist == IF rDist["t"] = NoDist THEN NoTable ELSE rTables[rDist["t"]]

Readings == {ReadLocal} \cup (IF OnCluster THEN {ReadDist} ELSE {})

(***************************************************************************)
(* CopyTables(targetTable, sourceTable, merge).  A table is the sequence   *)
(* of its rows [k, v]: k the primary-key column, v the other columns.      *)
(* Both tables start with at most one row per key.                         *)
(***************************************************************************)
Keys == 1 .. MaxKey

DstVals == {"a", "b"}
SrcVals == {"c", "d"}

\* the tables with at most one row per key and values from V, rows in key order
RECURSIVE KeyedTables(_, _)
KeyedTables(n, V) ==
    IF n = 0 THEN {<<>>}
    ELSE LET rest == KeyedTables(n - 1, V) IN
         rest \cup {Append(t, [k |-> n, v |-> v]) : t \in rest, v \in V}

KeysOf(t) == {t[i].k : i \in 1 .. Len(t)}

RowsWithKey(t, key) == {i \in 1 .. Len(t) : t[i].k = key}

\* the row of a table with one row per key
RowOf(t, key) == t[CHOOSE i \in 1 .. Len(t) : t[i].k = key]

RECURSIVE SelectRows(_, _)
SelectRows(t, keep) ==
    IF t = <<>> THEN <<>>
    ELSE IF Head(t).k \in keep THEN <<Head(t)>> \o SelectRows(Tail(t), keep)
    ELSE SelectRows(Tail(t), keep)

\* INSERT INTO target SELECT ... FROM source, and a copy job with WriteAppend
AppendAll(dst, src) == dst \o src

\* MERGE INTO target T USING source S ON T.pk = S.pk WHEN MATCHED THEN UPDATE
\* SET all columns WHEN NOT MATCHED THEN INSERT (bigquery.go:37), and INSERT ...
\* SELECT ... ON CONFLICT ON CONSTRAINT pk DO UPDATE SET ... (part_001:57)
Upsert(dst, src) ==
    [i \in 1 .. Len(dst) |->
        IF dst[i].k \in KeysOf(src) THEN RowOf(src, dst[i].k) ELSE dst[i]]
    \o SelectRows(src, KeysOf(src) \ KeysOf(dst))

\* bigquery.go:161-215
BigQueryCopyTables(dst, src, merge) ==
    IF ~merge THEN AppendAll(dst, src) ELSE Upsert(dst, src)

\* part_002:96-128: WriteAppend whatever merge is
BigQueryV1CopyTables(dst, src, merge) == AppendAll(dst, src)

\* part_000:550-552: ch.copy whatever merge is
ClickHouseCopyTables(dst, src, merge) == AppendAll(dst, src)

\* part_001:268-274
PostgresCopyTables(dst, src, merge) ==
    IF ~merge THEN AppendAll(dst, src) ELSE Upsert(dst, src)

CopyStart ==
    /\ cAdapter \in {"bigquery", "bigquery_v1", "clickhouse", "postgres"}
    /\ cMerge \in BOOLEAN
    /\ cDst0 \in KeyedTables(MaxKey, DstVals)
    /\ cSrc \in KeyedTables(MaxKey, SrcVals)
    /\ cDst = cDst0
    /\ cPc = "start"
    /\ cErr = NoErr

CopyIdle ==
    /\ cAdapter = "postgres"
    /\ cMerge = FALSE
    /\ cDst0 = <<>>
    /\ cSrc = <<>>
    /\ cDst = <<>>
    /\ cPc = "idle"
    /\ cErr = NoErr

\* the statement or job of CopyTables ran (ok), or failed and changed nothing
CopyRan(ok, result) ==
    /\ cPc = "start"
    /\ cPc' = "done"
    /\ cDst' = IF ok THEN result ELSE cDst
    /\ cErr' = IF ok THEN NoErr ELSE "copy_failed"
    /\ UNCHANGED <<cAdapter, cMerge, cDst0, cSrc>>
    /\ UNCHANGED nonCopyVars

BQCopyTables(ok) ==
    /\ cAdapter = "bigquery"
    /\ CopyRan(ok, BigQueryCopyTables(cDst, cSrc, cMerge))

BQV1CopyTables(ok) ==
    /\ cAdapter = "bigquery_v1"
    /\ CopyRan(ok, BigQueryV1CopyTables(cDst, cSrc, cMerge))

CHCopyTables(ok) ==
    /\ cAdapter = "clickhouse"
    /\ CopyRan(ok, ClickHouseCopyTables(cDst, cSrc, cMerge))

PGCopyTables(ok) ==
    /\ cAdapter = "postgres"
    /\ CopyRan(ok, PostgresCopyTables(cDst, cSrc, cMerge))

CopyNext ==
    \/ \E ok \in BOOLEAN : BQCopyTables(ok)
    \/ \E ok \in BOOLEAN : BQV1CopyTables(ok)
    \/ \E ok \in BOOLEAN : CHCopyTables(ok)
    \/ \E ok \in BOOLEAN : PGCopyTables(ok)

(***************************************************************************)
(* CreateTable and PatchTableSchema of the BigQuery and ClickHouse         *)
(* adapters.  A warehouse table is [exists, fields], fields the sequence   *)
(* of its columns [name, type].  The Table argument of a call is its       *)
(* Columns map: column number -> DDL type, Absent for a column not in it.  *)
(***************************************************************************)
Absent == "-"

DDLTypes == {"string", "INTEGER"}

ColumnNames == [i \in 1 .. MaxCols |-> "c" \o ToString(i)]

\* the columns listed in chNullableFields
NullableFields == {"c2"}

ColumnMaps == [1 .. MaxCols -> DDLTypes \cup {Absent}]

NoSchema == [exists |-> FALSE, fields |-> <<>>]

\* table.SortedColumnNames(), as column numbers
RECURSIVE SortedColumnNames(_, _)
SortedColumnNames(cols, n) ==
    IF n = 0 THEN <<>>
    ELSE IF cols[n] = Absent THEN SortedColumnNames(cols, n - 1)
    ELSE Append(SortedColumnNames(cols, n - 1), n)

\* strings.ToUpper on a DDL type
ToUpper(t) == IF t = "string" THEN "STRING" ELSE t

FieldNames(fields) == {fields[i].name : i \in 1 .. Len(fields)}

\* bigquery.go:300-305 and 394-398: the FieldSchema list of a Columns map
BigQueryFields(cols) ==
    LET names == SortedColumnNames(cols, MaxCols) IN
    [i \in 1 .. Len(names) |->
        [name |-> ColumnNames[names[i]], type |-> ToUpper(cols[names[i]])]]

\* bigquery.go:394-399: the schema of the update request
BigQueryPatchedSchema_replaces(fields, cols) == BigQueryFields(cols)

BigQueryPatchedSchema(fields, cols) == fields \o BigQueryFields(cols)

\* the warehouse refuses a schema that names a column twice
SchemaAccepted(fields) == Cardinality(FieldNames(fields)) = Len(fields)

\* part_000:751-764
chColumnDDL(name, type) ==
    [name |-> name,
     type |-> IF name \in NullableFields THEN "Nullable(" \o type \o ")" ELSE type]

\* part_000:257-262 and 339-345: the column DDL list of a Columns map
ClickHouseFields(cols) ==
    LET names == SortedColumnNames(cols, MaxCols) IN
    [i \in 1 .. Len(names) |-> chColumnDDL(ColumnNames[names[i]], cols[names[i]])]

\* ALTER TABLE ... ADD COLUMN ..., ADD COLUMN ...: refused as a whole when
\* the table is missing or already has one of the columns
AlterAccepted(table, added) ==
    /\ table.exists
    /\ FieldNames(table.fields) \cap FieldNames(added) = {}

\* the primary key of a Table argument: PKFields, PrimaryKeyName, DeletePkFields
PkColumns == {"c1", "c2"}

PkColumnOrder == <<"c1", "c2">>

\* names with the prefix BulkerManagedPkConstraintPrefix
ManagedPkNames == {"bulker_pk_1", "bulker_pk_2"}

NoPk == [PKFields |-> {}, PrimaryKeyName |-> "", DeletePkFields |-> FALSE]

PkArgs ==
    [PKFields : SUBSET PkColumns, PrimaryKeyName : ManagedPkNames \cup {""},
     DeletePkFields : BOOLEAN]

\* table.GetPKFields(): the fields of the set as a list
RECURSIVE GetPKFields(_, _)
GetPKFields(pkFields, n) ==
    IF n = 0 THEN <<>>
    ELSE IF PkColumnOrder[n] \in pkFields
    THEN Append(GetPKFields(pkFields, n - 1), PkColumnOrder[n])
    ELSE GetPKFields(pkFields, n - 1)

\* strings.Join(list, sep): the text as the sequence of its pieces
RECURSIVE Join(_, _)
Join(list, sep) ==
    IF Len(list) = 0 THEN <<>>
    ELSE IF Len(list) = 1 THEN <<list[1]>>
    ELSE <<list[1], sep>> \o Join(Tail(list), sep)

\* strings.Split(text, sep): the parts of the text between the pieces equal to sep
RECURSIVE Split(_, _, _)
Split(text, sep, part) ==
    IF text = <<>> THEN <<part>>
    ELSE IF Head(text) = sep THEN <<part>> \o Split(Tail(text), sep, "")
    ELSE Split(Tail(text), sep, part \o Head(text))

\* results of GetTableSchema; fault: the warehouse call failed for another
\* reason than a missing table
NotCalled == [err |-> "not_called", fault |-> FALSE, Name |-> "", Columns |-> <<>>,
              PKFields |-> {}, PrimaryKeyName |-> ""]

GetTableFails(e) == [err |-> e, fault |-> FALSE, Name |-> "", Columns |-> <<>>,
                     PKFields |-> {}, PrimaryKeyName |-> ""]

GotTable(name, columns, pkFields, primaryKeyName) ==
    [err |-> NoErr, fault |-> FALSE, Name |-> name, Columns |-> columns,
     PKFields |-> pkFields, PrimaryKeyName |-> primaryKeyName]

SchemaStart ==
    /\ sAdapter \in {"bigquery", "clickhouse", "clickhouse_cluster"}
    /\ sTable = NoSchema
    /\ sDist = NoSchema
    /\ sCall = [op |-> "none", cols |-> [i \in 1 .. MaxCols |-> Absent],
                pre |-> NoSchema, err |-> NoErr]
    /\ sLabels = {}
    /\ sPk = NoPk
    /\ sGot = NotCalled

SchemaIdle ==
    /\ sAdapter = "bigquery"
    /\ sTable = NoSchema
    /\ sDist = NoSchema
    /\ sCall = [op |-> "idle", cols |-> [i \in 1 .. MaxCols |-> Absent],
                pre |-> NoSchema, err |-> NoErr]
    /\ sLabels = {}
    /\ sPk = NoPk
    /\ sGot = NotCalled

SchemaReturns(op, cols, e) ==
    /\ sCall' = [op |-> op, cols |-> cols, pre |-> sTable, err |-> e]
    /\ sGot' = NotCalled
    /\ UNCHANGED sAdapter
    /\ UNCHANGED nonSchemaVars

\* bigquery.go:306-309: the labels of the table CreateTable creates
CreateLabels(pk) ==
    IF Cardinality(pk.PKFields) > 0 /\ pk.PrimaryKeyName # ""
    THEN {[k |-> pk.PrimaryKeyName,
           v |-> Join(GetPKFields(pk.PKFields, Len(PkColumnOrder)), "---")]}
    ELSE {}

\* bigquery.go:279-345
BQCreateTable(cols, pk, ok) ==
    /\ sAdapter = "bigquery"
    /\ sPk' = pk
    /\ UNCHANGED sDist
    /\ IF sTable.exists
       THEN /\ UNCHANGED <<sTable, sLabels>>
            /\ SchemaReturns("CreateTable", cols, NoErr)
       ELSE IF ok
       THEN /\ sTable' = [exists |-> TRUE, fields |-> BigQueryFields(cols)]
            /\ sLabels' = CreateLabels(pk)
            /\ SchemaReturns("CreateTable", cols, NoErr)
       ELSE /\ UNCHANGED <<sTable, sLabels>>
            /\ SchemaReturns("CreateTable", cols, "failed_to_create_table")

\* bigquery.go:385-393: metadata.Labels after the primary key of the patch
PatchLabels(labels, pk) ==
    LET deleted == IF pk.DeletePkFields THEN {} ELSE labels IN
    IF Cardinality(pk.PKFields) > 0 /\ pk.PrimaryKeyName # ""
    THEN {[k |-> pk.PrimaryKeyName,
           v |-> Join(GetPKFields(pk.PKFields, Len(PkColumnOrder)), ",")]}
    ELSE deleted

\* a field of TableMetadataToUpdate that is not set changes nothing
NotSet == "not_set"

\* bigquery.go:399: the update request built from the patched metadata
TableMetadataToUpdate(metadata) ==
    [Schema |-> metadata.Schema, Labels |-> NotSet]

\* bigquery.go:373-414
BQPatchTableSchema(cols, pk, ok) ==
    /\ sAdapter = "bigquery"
    /\ sPk' = pk
    /\ UNCHANGED sDist
    /\ IF ~sTable.exists
       THEN /\ UNCHANGED <<sTable, sLabels>>
            /\ SchemaReturns("PatchTableSchema", cols, "failed_to_get_table_metadata")
       ELSE LET metadata == [Schema |-> BigQueryPatchedSchema(sTable.fields, cols),
                             Labels |-> PatchLabels(sLabels, pk)]
                updateReq == TableMetadataToUpdate(metadata) IN
            IF ok /\ SchemaAccepted(updateReq.Schema)
            THEN /\ sTable' = [sTable EXCEPT !.fields = updateReq.Schema]
                 /\ sLabels' = IF updateReq.Labels = NotSet THEN sLabels
                               ELSE updateReq.Labels
                 /\ SchemaReturns("PatchTableSchema", cols, NoErr)
            ELSE /\ UNCHANGED <<sTable, sLabels>>
                 /\ SchemaReturns("PatchTableSchema", cols, "failed_to_patch_table")

\* bigquery.go:899-901 and 926-928
TableName(identifier) == identifier

\* bigquery.go:264-273: the primary key read from the labels; Go ranges over
\* the labels in an unspecified order and stops at the first managed name
PkOfLabels(labels) ==
    LET managed == {l \in labels : l.k \in ManagedPkNames} IN
    IF managed = {} THEN {[PKFields |-> {}, PrimaryKeyName |-> ""]}
    ELSE {[PKFields |-> LET parts == Split(l.v, "---", "") IN
                        {parts[i] : i \in 1 .. Len(parts)},
           PrimaryKeyName |-> l.k] : l \in managed}

\* bigquery.go:240-276; ok: Metadata fails for no other reason than a missing
\* table; pk: the primary key the labels loop finds
BigQueryGetTableSchema_failsNotFound(tableName, table, pk, ok) ==
    IF ~ok \/ ~table.exists THEN GetTableFails("failed_to_get_table")
    ELSE GotTable(TableName(tableName), table.fields, pk.PKFields, pk.PrimaryKeyName)

BigQueryGetTableSchema(tableName, table, pk, ok) ==
    IF ~ok THEN GetTableFails("failed_to_get_table")
    ELSE IF ~table.exists THEN GotTable(TableName(tableName), <<>>, {}, "")
    ELSE GotTable(TableName(tableName), table.fields, pk.PKFields, pk.PrimaryKeyName)

BQGetTableSchema(ok) ==
    /\ sAdapter = "bigquery"
    /\ \E pk \in PkOfLabels(sLabels) :
          sGot' = [BigQueryGetTableSchema("t", sTable, pk, ok) EXCEPT !.fault = ~ok]
    /\ UNCHANGED <<sAdapter, sTable, sDist, sCall, sLabels, sPk>>
    /\ UNCHANGED nonSchemaVars

\* part_000:669-677: CREATE TABLE dist_<name> AS <name> ENGINE = Distributed
DistCreated(dist, table, ok) ==
    IF ok /\ ~dist.exists /\ table.exists
    THEN [exists |-> TRUE, fields |-> table.fields]
    ELSE dist

\* part_000:256-283
CHCreateTable(cols, ok, okDist) ==
    /\ sAdapter \in {"clickhouse", "clickhouse_cluster"}
    /\ UNCHANGED <<sLabels, sPk>>
    /\ IF ~(ok /\ ~sTable.exists /\ ClickHouseFields(cols) # <<>>)
       THEN /\ UNCHANGED <<sTable, sDist>>
            /\ SchemaReturns("CreateTable", cols, "failed_to_create_table")
       ELSE LET table == [exists |-> TRUE, fields |-> ClickHouseFields(cols)] IN
            /\ sTable' = table
            /\ IF sAdapter = "clickhouse"
               THEN /\ UNCHANGED sDist
                    /\ SchemaReturns("CreateTable", cols, NoErr)
               ELSE /\ sDist' = DistCreated(sDist, table, okDist)
                    /\ SchemaReturns("CreateTable", cols,
                           IF sDist' = sDist THEN "error_creating_distributed_table"
                           ELSE NoErr)

\* part_000:335-374
CHPatchTableSchema(cols, ok, okDist, okDrop, okCreate) ==
    /\ sAdapter \in {"clickhouse", "clickhouse_cluster"}
    /\ UNCHANGED <<sLabels, sPk>>
    /\ LET added == ClickHouseFields(cols) IN
       IF added = <<>>
       THEN /\ UNCHANGED <<sTable, sDist>>
            /\ SchemaReturns("PatchTableSchema", cols, NoErr)
       ELSE IF ~(ok /\ AlterAccepted(sTable, added))
       THEN /\ UNCHANGED <<sTable, sDist>>
            /\ SchemaReturns("PatchTableSchema", cols, "failed_to_patch_table")
       ELSE LET table == [sTable EXCEPT !.fields = sTable.fields \o added] IN
            /\ sTable' = table
            /\ IF sAdapter = "clickhouse"
               THEN /\ UNCHANGED sDist
                    /\ SchemaReturns("PatchTableSchema", cols, NoErr)
               ELSE IF okDist /\ AlterAccepted(sDist, added)
               THEN /\ sDist' = [sDist EXCEPT !.fields = sDist.fields \o added]
                    /\ SchemaReturns("PatchTableSchema", cols, NoErr)
               ELSE LET dropped == IF okDrop THEN NoSchema ELSE sDist
                        created == DistCreated(dropped, table, okCreate) IN
                    /\ sDist' = created
                    /\ SchemaReturns("PatchTableSchema", cols,
                           IF created = dropped THEN "error_creating_distributed_table"
                           ELSE NoErr)

\* the columns of the calls of SpecLabels: none, or the primary key columns
LabelColumnMaps ==
    {[i \in 1 .. MaxCols |-> Absent],
     [i \in 1 .. MaxCols |-> IF i <= Len(PkColumnOrder) THEN "string" ELSE Absent]}

\* CreateTable, PatchTableSchema and GetTableSchema of BigQuery with every
\* primary key
LabelsNext ==
    \/ \E cols \in LabelColumnMaps, pk \in PkArgs, ok \in BOOLEAN :
          BQCreateTable(cols, pk, ok)
    \/ \E cols \in LabelColumnMaps, pk \in PkArgs, ok \in BOOLEAN :
          BQPatchTableSchema(cols, pk, ok)
    \/ \E ok \in BOOLEAN : BQGetTableSchema(ok)

\* the primary keys of the calls of SpecSchema
SchemaPkArgs ==
    {NoPk, [PKFields |-> {"c1"}, PrimaryKeyName |-> "bulker_pk_1", DeletePkFields |-> FALSE]}

SchemaNext ==
    \/ \E cols \in ColumnMaps, pk \in SchemaPkArgs, ok \in BOOLEAN :
          BQCreateTable(cols, pk, ok)
    \/ \E cols \in ColumnMaps, pk \in SchemaPkArgs, ok \in BOOLEAN :
          BQPatchTableSchema(cols, pk, ok)
    \/ \E cols \in ColumnMaps, ok, okDist \in BOOLEAN : CHCreateTable(cols, ok, okDist)
    \/ \E cols \in ColumnMaps, ok, okDist, okDrop, okCreate \in BOOLEAN :
          CHPatchTableSchema(cols, ok, okDist, okDrop, okCreate)

(***************************************************************************)
(* Data types, the type mappings of the adapters and the type join.        *)
(***************************************************************************)
DataTypes == {"STRING", "INT64", "FLOAT64", "TIMESTAMP", "BOOL", "JSON", "UNKNOWN"}

\* part_000:58-65
SchemaToClickhouse ==
    [d \in DataTypes \ {"JSON"} |->
        CASE d = "STRING" -> "String"
          [] d = "INT64" -> "Int64"
          [] d = "FLOAT64" -> "Float64"
          [] d = "TIMESTAMP" -> "DateTime"
          [] d = "BOOL" -> "UInt8"
          [] d = "UNKNOWN" -> "String"]

\* part_001:65-72
SchemaToPostgres ==
    [d \in DataTypes \ {"JSON"} |->
        CASE d = "STRING" -> "text"
          [] d = "INT64" -> "bigint"
          [] d = "FLOAT64" -> "double precision"
          [] d = "TIMESTAMP" -> "timestamp"
          [] d = "BOOL" -> "boolean"
          [] d = "UNKNOWN" -> "text"]

\* part_002:39-46
SchemaToBigQueryString ==
    [d \in DataTypes \ {"JSON"} |->
        CASE d = "STRING" -> "STRING"
          [] d = "INT64" -> "INTEGER"
          [] d = "FLOAT64" -> "FLOAT"
          [] d = "TIMESTAMP" -> "TIMESTAMP"
          [] d = "BOOL" -> "BOOLEAN"
          [] d = "UNKNOWN" -> "STRING"]

\* the join of two observed types (section 4.1 of the specification)
join(a, b) ==
    IF a = b THEN a
    ELSE IF a = "UNKNOWN" THEN b
    ELSE IF b = "UNKNOWN" THEN a
    ELSE IF {a, b} = {"INT64", "FLOAT64"} THEN "FLOAT64"
    ELSE IF {a, b} = {"BOOL", "INT64"} THEN "INT64"
    ELSE "STRING"

(***************************************************************************)
(* preprocess builds the table of one object; Insert builds the statement  *)
(* placeholders from that table.  An object is given by the type inferred  *)
(* for the value of each of its fields.                                    *)
(***************************************************************************)
Fields == {"f1", "f2"}

FieldOrder == <<"f1", "f2">>

\* the SQL types WithColumnTypes is called with
OverrideTypes == {"date"}

NoColumn == [Type |-> Absent, Override |-> FALSE]

GetTypesMapping(adapter) ==
    IF adapter = "clickhouse" THEN SchemaToClickhouse ELSE SchemaToPostgres

ObjectsOf(adapter) == [Fields -> DOMAIN GetTypesMapping(adapter) \cup {Absent}]

\* ProcessEvents(tableName, []types.Object{object}): the header of a batch,
\* field -> [type, override]
RECURSIVE ProcessEventsHeader(_)
ProcessEventsHeader(objects) ==
    IF objects = <<>> THEN [f \in Fields |-> Absent]
    ELSE LET rest == ProcessEventsHeader(Tail(objects))
             obj == Head(objects) IN
         [f \in Fields |->
             IF obj[f] = Absent THEN rest[f]
             ELSE IF rest[f] = Absent THEN obj[f]
             ELSE join(obj[f], rest[f])]

\* TableHelper.MapTableSchema after Fields.OverrideTypes: field -> SQLColumn
MapTableSchema(adapter, header, customFields) ==
    [f \in Fields |->
        IF header[f] = Absent THEN NoColumn
        ELSE IF customFields[f] # Absent
        THEN [Type |-> customFields[f], Override |-> TRUE]
        ELSE [Type |-> GetTypesMapping(adapter)[header[f]], Override |-> FALSE]]

\* abstract.go:48-57: the table preprocess returns
preprocessTable(adapter, customFields, object) ==
    LET batchHeader == ProcessEventsHeader(<<object>>) IN
    IF \E f \in Fields : customFields[f] # Absent
    THEN MapTableSchema(adapter, batchHeader, customFields)
    ELSE MapTableSchema(adapter, batchHeader, [f \in Fields |-> Absent])

\* part_000:766-772
chTypecastFunc_noCast(placeholder, column) == placeholder

chTypecastFunc(placeholder, column) ==
    IF column.Override THEN "cast(" \o placeholder \o ", '" \o column.Type \o "')"
    ELSE placeholder

\* part_001:110-115
pgTypecastFunc(placeholder, column) ==
    IF column.Override THEN placeholder \o "::" \o column.Type
    ELSE placeholder

\* QuestionMarkParameterPlaceholder / IndexParameterPlaceholder
parameterPlaceholder(adapter, i) ==
    IF adapter = "clickhouse" THEN "?" ELSE "$" \o ToString(i)

\* position of a column among table.SortedColumnNames()
ColumnIndex(table, f) ==
    Cardinality({i \in 1 .. Len(FieldOrder) :
                    /\ table[FieldOrder[i]] # NoColumn
                    /\ i <= CHOOSE j \in 1 .. Len(FieldOrder) : FieldOrder[j] = f})

\* part_000:409-415: the placeholders of the INSERT statement
placeHolders(adapter, table) ==
    [f \in Fields |->
        IF table[f] = NoColumn THEN Absent
        ELSE LET ph == parameterPlaceholder(adapter, ColumnIndex(table, f)) IN
             IF adapter = "clickhouse" THEN chTypecastFunc(ph, table[f])
             ELSE pgTypecastFunc(ph, table[f])]

HeaderStart ==
    /\ hAdapter \in {"clickhouse", "postgres"}
    /\ hOverrides \in [Fields -> OverrideTypes \cup {Absent}]
    /\ hHeader = [f \in Fields |-> Absent]
    /\ hObject = [f \in Fields |-> Absent]
    /\ hTable = [f \in Fields |-> NoColumn]
    /\ hHolders = [f \in Fields |-> Absent]
    /\ hPc = "start"

HeaderIdle ==
    /\ hAdapter = "postgres"
    /\ hOverrides = [f \in Fields |-> Absent]
    /\ hHeader = [f \in Fields |-> Absent]
    /\ hObject = [f \in Fields |-> Absent]
    /\ hTable = [f \in Fields |-> NoColumn]
    /\ hHolders = [f \in Fields |-> Absent]
    /\ hPc = "none"

\* abstract.go:44-60 for an object ProcessEvents accepts
HPreprocess(object) ==
    /\ hPc \in {"start", "idle"}
    /\ hObject' = object
    /\ hHeader' = ProcessEventsHeader(<<object, hHeader>>)
    /\ hTable' = preprocessTable(hAdapter, hOverrides, object)
    /\ hPc' = "insert"
    /\ UNCHANGED <<hAdapter, hOverrides, hHolders>>
    /\ UNCHANGED nonHeaderVars

\* part_000:392-417: the statement Insert prepares for the table
HInsert ==
    /\ hPc = "insert"
    /\ hHolders' = placeHolders(hAdapter, hTable)
    /\ hPc' = "idle"
    /\ UNCHANGED <<hAdapter, hOverrides, hHeader, hObject, hTable>>
    /\ UNCHANGED nonHeaderVars

HeaderNext ==
    \/ \E object \in ObjectsOf(hAdapter) : HPreprocess(object)
    \/ HInsert

(***************************************************************************)
(* The type of one field: the join of the types of its values, taken in    *)
(* the order the values are consumed.                                      *)
(***************************************************************************)
JoinStart ==
    /\ jValues \in DataTypes \X DataTypes \X DataTypes
    /\ jLeft = {1, 2, 3}
    /\ jType = Absent

JoinIdle ==
    /\ jValues = <<"UNKNOWN", "UNKNOWN", "UNKNOWN">>
    /\ jLeft = {}
    /\ jType = Absent

\* the value at position i is consumed
JoinValue(i) ==
    /\ i \in jLeft
    /\ jLeft' = jLeft \ {i}
    /\ jType' = IF jType = Absent THEN jValues[i] ELSE join(jType, jValues[i])
    /\ UNCHANGED jValues
    /\ UNCHANGED nonJoinVars

JoinNext == \E i \in {1, 2, 3} : JoinValue(i)

(***************************************************************************)
(* init() of the BigQuery adapter fills bigqueryTypeMapping and            *)
(* bigqueryReverseTypeMapping from bigqueryTypes.  Go ranges over a map in *)
(* an unspecified order: every order is a behaviour.                       *)
(***************************************************************************)
\* bigquery.go:56-64
bigqueryTypes ==
    [d \in DataTypes |->
        CASE d = "STRING" -> <<"STRING">>
          [] d = "INT64" -> <<"INTEGER">>
          [] d = "FLOAT64" -> <<"FLOAT">>
          [] d = "TIMESTAMP" -> <<"TIMESTAMP">>
          [] d = "BOOL" -> <<"BOOLEAN">>
          [] d = "JSON" -> <<"JSON">>
          [] d = "UNKNOWN" -> <<"STRING">>]

BigQuerySQLTypes == {bigqueryTypes[d][i] : d \in DataTypes, i \in {1}}

\* bigquery.go:73-80: the inner loop, from the i-th SQL type of dataType on
RECURSIVE initInner_reversesUnknown(_, _, _)
initInner_reversesUnknown(maps, dataType, i) ==
    IF i > Len(bigqueryTypes[dataType]) THEN maps
    ELSE LET sqlType == bigqueryTypes[dataType][i]
             fwd == IF i = 1 THEN [maps.fwd EXCEPT ![dataType] = sqlType] ELSE maps.fwd
             rev == [maps.rev EXCEPT ![sqlType] = dataType] IN
         initInner_reversesUnknown([fwd |-> fwd, rev |-> rev], dataType, i + 1)

RECURSIVE initInner(_, _, _)
initInner(maps, dataType, i) ==
    IF i > Len(bigqueryTypes[dataType]) THEN maps
    ELSE LET sqlType == bigqueryTypes[dataType][i]
             fwd == IF i = 1 THEN [maps.fwd EXCEPT ![dataType] = sqlType] ELSE maps.fwd
             rev == IF dataType # "UNKNOWN" THEN [maps.rev EXCEPT ![sqlType] = dataType]
                    ELSE maps.rev IN
         initInner([fwd |-> fwd, rev |-> rev], dataType, i + 1)

\* bigquery.go:938-941
GetSQLType(dataType) == bigqueryTypeMapping[dataType]

\* bigquery.go:943-946, for a SQL type of bigqueryTypes
GetDataType(sqlType) == bigqueryReverseTypeMapping[sqlType]

\* bigquery.go:69-71
TypesStart ==
    /\ tOrder = <<>>
    /\ bigqueryTypeMapping = [d \in DataTypes |-> Absent]
    /\ bigqueryReverseTypeMapping = [t \in BigQuerySQLTypes |-> Absent]

TypesIdle ==
    /\ tOrder = <<"idle">>
    /\ bigqueryTypeMapping = [d \in DataTypes |-> Absent]
    /\ bigqueryReverseTypeMapping = [t \in BigQuerySQLTypes |-> Absent]

\* bigquery.go:72-81: one iteration of the range loop
InitRange(dataType) ==
    /\ dataType \notin {tOrder[i] : i \in 1 .. Len(tOrder)}
    /\ tOrder' = Append(tOrder, dataType)
    /\ LET maps == initInner([fwd |-> bigqueryTypeMapping,
                              rev |-> bigqueryReverseTypeMapping], dataType, 1) IN
       /\ bigqueryTypeMapping' = maps.fwd
       /\ bigqueryReverseTypeMapping' = maps.rev
    /\ UNCHANGED nonTypesVars

TypesNext == \E dataType \in DataTypes : InitRange(dataType)

(***************************************************************************)
(* GetTableSchema of Postgres, ClickHouse and the part_002 BigQuery        *)
(* adapter, on a table that exists or not.  (GetTableSchema of the         *)
(* bigquery.go adapter is BQGetTableSchema above.)                         *)
(***************************************************************************)
NoKey == [PKFields |-> {}, PrimaryKeyName |-> ""]

\* the tables the warehouse may hold under the name; "-" is the type
\* pgTableSchemaQuery reports for a dropped column
WarehouseTables ==
    {NoSchema,
     [exists |-> TRUE, fields |-> <<[name |-> "c1", type |-> "text"]>>],
     [exists |-> TRUE, fields |-> <<[name |-> "c1", type |-> "text"],
                                    [name |-> "c2", type |-> "-"]>>],
     [exists |-> TRUE, fields |-> <<[name |-> "c1", type |-> "-"]>>]}

RECURSIVE SkipDropped(_)
SkipDropped(fields) ==
    IF fields = <<>> THEN <<>>
    ELSE IF Head(fields).type = "-" THEN SkipDropped(Tail(fields))
    ELSE <<Head(fields)>> \o SkipDropped(Tail(fields))

\* part_001:186-210 with getTable (212-259) and getPrimaryKey (365-414)
PostgresGetTableSchema(tableName, table, key, okTable, okPk) ==
    IF ~okTable THEN GetTableFails("failed_to_get_table_columns")
    ELSE LET columns == SkipDropped(table.fields) IN
         IF Len(columns) = 0 THEN GotTable(tableName, <<>>, {}, "")
         ELSE IF ~okPk THEN GetTableFails("failed_to_get_primary_key")
         ELSE GotTable(tableName, columns, key.PKFields, key.PrimaryKeyName)

\* part_002:183-208
BigQueryV1GetTableSchema(tableName, table, ok) ==
    IF ~ok THEN GetTableFails("failed_to_get_table")
    ELSE IF ~table.exists THEN GotTable(tableName, <<>>, {}, "")
    ELSE GotTable(tableName, table.fields, {}, "")

\* part_000:286-331
ClickHouseGetTableSchema(tableName, table, ok) ==
    IF ~ok THEN GetTableFails("failed_to_get_table_columns")
    ELSE GotTable(tableName, table.fields, {}, "")

GetStart ==
    /\ gAdapter \in {"bigquery", "bigquery_v1", "postgres", "clickhouse"}
    /\ gName \in {"t", "u"}
    /\ gTable \in WarehouseTables
    /\ gKey \in {NoKey, [PKFields |-> {"c1"}, PrimaryKeyName |-> "bulker_pk_1"]}
    /\ gAdapter = "bigquery" => gTable = NoSchema
    /\ (gAdapter # "postgres" \/ SkipDropped(gTable.fields) = <<>>) => gKey = NoKey
    /\ gAdapter = "clickhouse" => \A i \in 1 .. Len(gTable.fields) : gTable.fields[i].type # "-"
    /\ gGot = NotCalled

GetIdle ==
    /\ gAdapter = "postgres"
    /\ gName = "t"
    /\ gTable = NoSchema
    /\ gKey = NoKey
    /\ gGot = NotCalled

GetReturns(got, fault) ==
    /\ gGot' = [got EXCEPT !.fault = fault]
    /\ UNCHANGED <<gAdapter, gName, gTable, gKey>>
    /\ UNCHANGED nonGetVars

PGGetTableSchema(okTable, okPk) ==
    /\ gAdapter = "postgres"
    /\ GetReturns(PostgresGetTableSchema(gName, gTable, gKey, okTable, okPk),
                  ~okTable \/ (SkipDropped(gTable.fields) # <<>> /\ ~okPk))

BQV1GetTableSchema(ok) ==
    /\ gAdapter = "bigquery_v1"
    /\ GetReturns(BigQueryV1GetTableSchema(gName, gTable, ok), ~ok)

CHGetTableSchema(ok) ==
    /\ gAdapter = "clickhouse"
    /\ GetReturns(ClickHouseGetTableSchema(gName, gTable, ok), ~ok)

\* GetTableSchema of the four adapters; the table of the bigquery.go adapter
\* is created by its CreateTable
GetNext ==
    \/ \E okTable, okPk \in BOOLEAN : PGGetTableSchema(okTable, okPk)
    \/ \E ok \in BOOLEAN : BQV1GetTableSchema(ok)
    \/ \E ok \in BOOLEAN : CHGetTableSchema(ok)
    \/ \E ok \in BOOLEAN : gAdapter = "bigquery" /\ BQGetTableSchema(ok)
    \/ \E cols \in LabelColumnMaps, pk \in SchemaPkArgs, ok \in BOOLEAN :
          gAdapter = "bigquery" /\ BQCreateTable(cols, pk, ok)

(***************************************************************************)
(* BigQuery.CreateStream of bigquery.go and of part_002.                   *)
(***************************************************************************)
\* bulker.BulkMode: "stream" is bulker.Stream (bulker.AutoCommit in
\* part_002), "batch" is bulker.Batch (bulker.Transactional in part_002);
\* "other" is a value that is none of the four
BulkModes == {"stream", "batch", "replace_table", "replace_partition", "other"}

StreamIds == {"s1", "s2"}

StreamTables == {"t", "u"}

StreamOptionSets == [merge : BOOLEAN, pk : SUBSET PkCols]

BigQueryAutocommitUnsupported ==
    "BigQuery bulker doesn't support auto commit mode as not efficient"

UnsupportedBulkMode == "unsupported bulk mode"

NoStream == [id |-> "", tableName |-> "", mode |-> "", Status |-> ""]

\* newAutoCommitStream, newTransactionalStream, newReplaceTableStream and
\* newReplacePartitionStream: each builds its stream on newAbstractStream
newStream(id, tableName, mode, options) ==
    LET ps == newAbstractStream(options.merge, options.pk) IN
    IF ps.err # NoErr THEN [stream |-> NoStream, err |-> ps.err]
    ELSE [stream |-> [id |-> id, tableName |-> tableName, mode |-> mode,
                      Status |-> ps.state.Status],
          err |-> NoErr]

\* bigquery.go:128-143
BigQueryCreateStream(id, tableName, mode, options) ==
    CASE mode = "stream" -> [stream |-> NoStream, err |-> BigQueryAutocommitUnsupported]
      [] mode \in {"batch", "replace_table", "replace_partition"} ->
             newStream(id, tableName, mode, options)
      [] OTHER -> [stream |-> NoStream, err |-> UnsupportedBulkMode]

\* part_002:82-94
BigQueryV1CreateStream(id, tableName, mode, options) ==
    CASE mode \in {"stream", "batch", "replace_table", "replace_partition"} ->
             newStream(id, tableName, mode, options)
      [] OTHER -> [stream |-> NoStream, err |-> UnsupportedBulkMode]

NoCreate == [id |-> "", tableName |-> "", mode |-> "none",
             options |-> [merge |-> FALSE, pk |-> {}]]

NotCreated == [stream |-> NoStream, err |-> "not_called"]

CreateStart ==
    /\ kAdapter \in {"bigquery", "bigquery_v1"}
    /\ kCall = NoCreate
    /\ kGot = NotCreated

CreateIdle ==
    /\ kAdapter = "bigquery"
    /\ kCall = NoCreate
    /\ kGot = NotCreated

BQCreateStream(id, tableName, mode, options) ==
    /\ kAdapter = "bigquery"
    /\ kCall' = [id |-> id, tableName |-> tableName, mode |-> mode, options |-> options]
    /\ kGot' = BigQueryCreateStream(id, tableName, mode, options)
    /\ UNCHANGED kAdapter
    /\ UNCHANGED nonCreateVars

BQV1CreateStream(id, tableName, mode, options) ==
    /\ kAdapter = "bigquery_v1"
    /\ kCall' = [id |-> id, tableName |-> tableName, mode |-> mode, options |-> options]
    /\ kGot' = BigQueryV1CreateStream(id, tableName, mode, options)
    /\ UNCHANGED kAdapter
    /\ UNCHANGED nonCreateVars

CreateNext ==
    \/ \E id \in StreamIds, tableName \in StreamTables, mode \in BulkModes,
          options \in StreamOptionSets : BQCreateStream(id, tableName, mode, options)
    \/ \E id \in StreamIds, tableName \in StreamTables, mode \in BulkModes,
          options \in StreamOptionSets : BQV1CreateStream(id, tableName, mode, options)

(***************************************************************************)
(* The local staging file of a batch-mode stream: its name is chosen by    *)
(* CreateStream, rows are appended by Consume, LoadTable reads it during   *)
(* Complete, Complete and Abort delete it.  Texts are sequences of         *)
(* characters; "-" stands for a character SanitizeString does not keep.    *)
(***************************************************************************)
\* two streams are enough for a property of every pair of streams
Slots == {"s1", "s2"}

StreamIdTexts == {<<"a">>, <<"a", "-">>, <<"b">>}

TableTexts == {<<"t">>, <<"u">>}

FileModes == {"batch", "replace_table"}

\* utils.SanitizeString: the characters it does not support are taken out
RECURSIVE SanitizeString(_)
SanitizeString(text) ==
    IF text = <<>> THEN <<>>
    ELSE IF Head(text) = "-" THEN SanitizeString(Tail(text))
    ELSE <<Head(text)>> \o SanitizeString(Tail(text))

\* the argument of withLocalBatchFile: bigquery.go:130
\* fmt.Sprintf("bulker_%s", SanitizeString(id)); part_000:209 and
\* part_001:135 fmt.Sprintf("bulker_%s_stream_%s_%s", mode, tableName,
\* SanitizeString(id))
LocalBatchFile(adapter, id, tableName, mode) ==
    IF adapter = "bigquery"
    THEN <<"bulker", "_">> \o SanitizeString(id)
    ELSE <<"bulker", "_", mode, "_", "stream", "_">> \o tableName \o <<"_">>
             \o SanitizeString(id)

\* os.Remove where a file that is still open cannot be removed
RemoveFile_failsWhenOpen(disk, handles, name) ==
    IF name \in handles THEN disk ELSE disk \ {name}

\* os.Remove: the name is unlinked, open handles or not
RemoveFile(disk, handles, name) == disk \ {name}

NoFileStream == [status |-> "none", id |-> <<>>, tableName |-> <<>>, mode |-> "",
                 file |-> <<>>, written |-> FALSE]

FileStart ==
    /\ fAdapter \in {"bigquery", "clickhouse", "postgres"}
    /\ fStreams = [s \in Slots |-> NoFileStream]
    /\ fDisk = {}
    /\ fHandles = {}

FileIdle ==
    /\ fAdapter = "postgres"
    /\ fStreams = [s \in Slots |-> NoFileStream]
    /\ fDisk = {}
    /\ fHandles = {}

\* CreateStream(id, tableName, mode) in a batch mode
FCreateStream(s, id, tableName, mode) ==
    /\ fStreams[s].status = "none"
    /\ fStreams' = [fStreams EXCEPT ![s] =
                      [status |-> "Active", id |-> id, tableName |-> tableName,
                       mode |-> mode,
                       file |-> LocalBatchFile(fAdapter, id, tableName, mode),
                       written |-> FALSE]]
    /\ UNCHANGED <<fAdapter, fDisk, fHandles>>
    /\ UNCHANGED nonFileVars

\* Consume: the object is appended to the staging file
FConsume(s) ==
    /\ fStreams[s].status = "Active"
    /\ fStreams' = [fStreams EXCEPT ![s].written = TRUE]
    /\ fDisk' = fDisk \cup {fStreams[s].file}
    /\ UNCHANGED <<fAdapter, fHandles>>
    /\ UNCHANGED nonFileVars

\* Complete: with rows consumed LoadTable opens the file (bigquery.go:530,
\* part_000:512, part_001:307) and returns without closing it; then the file
\* is deleted, whether the commit succeeded or not
FComplete(s, ok) ==
    /\ fStreams[s].status = "Active"
    /\ LET file == fStreams[s].file
           handles == IF fStreams[s].written /\ file \in fDisk
                      THEN fHandles \cup {file} ELSE fHandles IN
        /\ fHandles' = handles
        /\ fDisk' = RemoveFile(fDisk, handles, file)
    /\ fStreams' = [fStreams EXCEPT ![s].status = IF ok THEN "Completed" ELSE "Failed"]
    /\ UNCHANGED fAdapter
    /\ UNCHANGED nonFileVars

\* Abort: the file is deleted
FAbort(s) ==
    /\ fStreams[s].status = "Active"
    /\ fDisk' = RemoveFile(fDisk, fHandles, fStreams[s].file)
    /\ fStreams' = [fStreams EXCEPT ![s].status = "Aborted"]
    /\ UNCHANGED <<fAdapter, fHandles>>
    /\ UNCHANGED nonFileVars

FileNext ==
    \/ \E s \in Slots, id \in StreamIdTexts, tableName \in TableTexts, mode \in FileModes :
          FCreateStream(s, id, tableName, mode)
    \/ \E s \in Slots : FConsume(s)
    \/ \E s \in Slots, ok \in BOOLEAN : FComplete(s, ok)
    \/ \E s \in Slots : FAbort(s)

(***************************************************************************)
(* The identifier policies of BigQuery, bigquery.go:899-924.  An           *)
(* identifier is a sequence of characters: a letter in both cases, a       *)
(* digit, the underscore, the space, "-" for a character outside           *)
(* [0-9A-Za-z_]; "select" and "table_" stand for those runs of letters.    *)
(* Only the adapted name is modelled, not the needQuote result.            *)
(***************************************************************************)
IdentChars == {"a", "A", "1", "_", " ", "-", "select", "table_"}

Identifiers == SeqsUpTo(IdentChars, MaxIdentLen)

\* bigqueryReservedWords and bigqueryReservedPrefixes, those the characters
\* can spell
bigqueryReservedWords == {<<"select">>}

bigqueryReservedPrefixes == {<<"_", "table_">>}

\* regexp.ReplaceAllString(text, "") with [^0-9A-Za-z_]
RECURSIVE RemoveUnsupported(_)
RemoveUnsupported(text) ==
    IF text = <<>> THEN <<>>
    ELSE IF Head(text) \in {" ", "-"} THEN RemoveUnsupported(Tail(text))
    ELSE <<Head(text)>> \o RemoveUnsupported(Tail(text))

\* regexp.ReplaceAllString(text, "_") with _{2,}
RECURSIVE CollapseUnderscores(_)
CollapseUnderscores(text) ==
    IF Len(text) < 2 THEN text
    ELSE IF text[1] = "_" /\ text[2] = "_" THEN CollapseUnderscores(Tail(text))
    ELSE <<Head(text)>> \o CollapseUnderscores(Tail(text))

\* strings.ReplaceAll(text, " ", "_")
SpacesToUnderscores(text) == [i \in 1 .. Len(text) |-> IF text[i] = " " THEN "_" ELSE text[i]]

\* strings.ToLower
ToLower(text) == [i \in 1 .. Len(text) |-> IF text[i] = "A" THEN "a" ELSE text[i]]

\* fmt.Sprintf("%x", utils.HashString(identifier)) for an identifier of
\* unsupported characters and underscores: hexadecimal digits, different for
\* different identifiers
HashString(identifier) ==
    <<"f">> \o [i \in 1 .. Len(identifier) |->
                  CASE identifier[i] = " " -> "0"
                    [] identifier[i] = "-" -> "1"
                    [] OTHER -> "2"]

HasPrefix(text, prefix) ==
    Len(text) >= Len(prefix) /\ SubSeq(text, 1, Len(prefix)) = prefix

\* utils.ShortenString(text, n)
ShortenString(text, n) == IF Len(text) > n THEN SubSeq(text, 1, n) ELSE text

\* bigquery.go:899-901
tableNameFunc(identifier) == identifier

\* columnNameFunc taking every leading underscore for a reserved prefix
columnNameFunc_underscorePrefix(identifier) ==
    LET cleanIdentifier == CollapseUnderscores(RemoveUnsupported(identifier))
        result0 == RemoveUnsupported(SpacesToUnderscores(identifier))
        result == IF result0 # <<>> /\ Head(result0) = "1"
                  THEN <<"_">> \o result0 ELSE result0
        lc == ToLower(result)
    IN  IF cleanIdentifier = <<>> \/ cleanIdentifier = <<"_">>
        THEN <<"column", "_">> \o HashString(identifier)
        ELSE IF lc \in bigqueryReservedWords THEN result
        ELSE IF HasPrefix(lc, <<"_">>)
        THEN ShortenString(<<"_">> \o result, 300)
        ELSE ShortenString(result, 300)

\* bigquery.go:903-924
columnNameFunc(identifier) ==
    LET cleanIdentifier == CollapseUnderscores(RemoveUnsupported(identifier))
        result0 == RemoveUnsupported(SpacesToUnderscores(identifier))
        result == IF result0 # <<>> /\ Head(result0) = "1"
                  THEN <<"_">> \o result0 ELSE result0
        lc == ToLower(result)
    IN  IF cleanIdentifier = <<>> \/ cleanIdentifier = <<"_">>
        THEN <<"column", "_">> \o HashString(identifier)
        ELSE IF lc \in bigqueryReservedWords THEN result
        ELSE IF \E reserved \in bigqueryReservedPrefixes : HasPrefix(lc, reserved)
        THEN ShortenString(<<"_">> \o result, 300)
        ELSE ShortenString(result, 300)

NamePolicy(policy, identifier) ==
    IF policy = "table" THEN tableNameFunc(identifier) ELSE columnNameFunc(identifier)

\* the other column of the Table given to CreateTable
OtherColumns == {<<"a", "_", "a">>, <<"a">>}

NameStart ==
    /\ nPolicy \in {"table", "column"}
    /\ nIdent \in Identifiers
    /\ nOut = <<>>
    /\ \E other \in OtherColumns : nColumns = {nIdent, other}
    /\ nSchema = <<>>

NameIdle ==
    /\ nPolicy = "table"
    /\ nIdent = <<>>
    /\ nOut = <<>>
    /\ nColumns = {}
    /\ nSchema = <<>>

\* TableName / ColumnName on the identifier, then on the name it returned
NNormalize ==
    /\ nPolicy \in {"table", "column"}
    /\ Len(nOut) < 2
    /\ nOut' = Append(nOut, NamePolicy(nPolicy, IF nOut = <<>> THEN nIdent
                                                ELSE nOut[Len(nOut)]))
    /\ UNCHANGED <<nPolicy, nIdent, nColumns, nSchema>>
    /\ UNCHANGED nonNameVars

\* bigquery.go:299-304: CreateTable appends one FieldSchema per column of the
\* Table, named bq.ColumnName(columnName)
NCreateTable ==
    /\ nColumns # {}
    /\ nSchema = <<>>
    /\ \E order \in [1 .. Cardinality(nColumns) -> nColumns] :
          /\ \A i, j \in DOMAIN order : i # j => order[i] # order[j]
          /\ nSchema' = [i \in DOMAIN order |-> columnNameFunc(order[i])]
    /\ UNCHANGED <<nPolicy, nIdent, nOut, nColumns>>
    /\ UNCHANGED nonNameVars

NameNext == NNormalize \/ NCreateTable

(***************************************************************************)
(* OpenTx of the adapters and the TxSQLAdapter it returns.  The wrapper is *)
(* [kind, pending]: kind "dummy" for NewDummyTxWrapper, "sql" for a        *)
(* database transaction begun on the data source; pending are the rows     *)
(* written through a database transaction and not committed yet.           *)
(***************************************************************************)
NoTx == [kind |-> "none", pending |-> {}]

\* SQLAdapterBase.openTx: begins a database transaction and wraps it
openTx(ok) ==
    IF ok THEN [tx |-> [kind |-> "sql", pending |-> {}], err |-> NoErr]
    ELSE [tx |-> NoTx, err |-> "failed_to_begin_transaction"]

\* bigquery.go:891-893, part_002:730-732
BigQueryOpenTx(ok) == [tx |-> [kind |-> "dummy", pending |-> {}], err |-> NoErr]

\* part_000:232-236: the same with and without a cluster; the wrapper without
\* a transaction of line 235 is commented out
ClickHouseOpenTx(cluster, ok) == openTx(ok)

\* part_001:166-168
PostgresOpenTx(ok) == openTx(ok)

AdapterOpenTx(adapter, ok) ==
    CASE adapter \in {"bigquery", "bigquery_v1"} -> BigQueryOpenTx(ok)
      [] adapter = "clickhouse" -> ClickHouseOpenTx(FALSE, ok)
      [] adapter = "clickhouse_cluster" -> ClickHouseOpenTx(TRUE, ok)
      [] OTHER -> PostgresOpenTx(ok)

NoTxCall == [op |-> "none", before |-> {}]

TxStart ==
    /\ xAdapter \in {"bigquery", "bigquery_v1", "clickhouse", "clickhouse_cluster", "postgres"}
    /\ xTx = NoTx
    /\ xDb \in SUBSET {"old"}
    /\ xCall = NoTxCall

TxIdle ==
    /\ xAdapter = "postgres"
    /\ xTx = NoTx
    /\ xDb = {}
    /\ xCall = NoTxCall

XOpenTx(ok) ==
    /\ xTx = NoTx
    /\ xTx' = AdapterOpenTx(xAdapter, ok).tx
    /\ xCall' = [op |-> "open", before |-> xDb]
    /\ UNCHANGED <<xAdapter, xDb>>
    /\ UNCHANGED nonTxVars

\* a statement run through the wrapper: inside the database transaction when
\* there is one, directly on the warehouse otherwise
XExec(row) ==
    /\ xTx # NoTx
    /\ IF xTx.kind = "sql"
       THEN xTx' = [xTx EXCEPT !.pending = @ \cup {row}] /\ UNCHANGED xDb
       ELSE xDb' = xDb \cup {row} /\ UNCHANGED xTx
    /\ xCall' = [op |-> "exec", before |-> xDb]
    /\ UNCHANGED xAdapter
    /\ UNCHANGED nonTxVars

\* TxSQLAdapter.Commit
XCommit ==
    /\ xTx # NoTx
    /\ xDb' = xDb \cup xTx.pending
    /\ xTx' = NoTx
    /\ xCall' = [op |-> "commit", before |-> xDb]
    /\ UNCHANGED xAdapter
    /\ UNCHANGED nonTxVars

\* TxSQLAdapter.Rollback
XRollback ==
    /\ xTx # NoTx
    /\ UNCHANGED xDb
    /\ xTx' = NoTx
    /\ xCall' = [op |-> "rollback", before |-> xDb]
    /\ UNCHANGED xAdapter
    /\ UNCHANGED nonTxVars

TxNext ==
    \/ \E ok \in BOOLEAN : XOpenTx(ok)
    \/ \E row \in Rows : XExec(row)
    \/ XCommit
    \/ XRollback

(***************************************************************************)
(* BigQuery.Insert, bigquery.go:471-511 and part_002:384-424 (the same     *)
(* loop).  The objects are numbered 1 .. n in the order of the argument.   *)
(***************************************************************************)
bigqueryRowsLimitPerInsertOperation == 500

\* the lengths of the objects argument
ObjectCounts == {0, 1, 2, 499, 500, 501, 502, 1003}

\* one round of the loop that forgets the object of the round in which it
\* sends a chunk
InsertRound_losesObject(items, object, ok) ==
    IF Len(items) > bigqueryRowsLimitPerInsertOperation
    THEN [sent |-> <<[items |-> items, ok |-> ok]>>,
          items |-> <<>>,
          err |-> IF ok THEN NoErr ELSE "failed_middle_insert"]
    ELSE [sent |-> <<>>, items |-> Append(items, object), err |-> NoErr]

\* bigquery.go:478-495: one round of the loop over objects
InsertRound(items, object, ok) ==
    IF Len(items) > bigqueryRowsLimitPerInsertOperation
    THEN [sent |-> <<[items |-> items, ok |-> ok]>>,
          items |-> IF ok THEN <<object>> ELSE items,
          err |-> IF ok THEN NoErr ELSE "failed_middle_insert"]
    ELSE [sent |-> <<>>, items |-> Append(items, object), err |-> NoErr]

\* bigquery.go:497-508: the items left after the loop
InsertRest(items, ok) ==
    IF Len(items) > 0
    THEN [sent |-> <<[items |-> items, ok |-> ok]>>,
          err |-> IF ok THEN NoErr ELSE "failed_last_insert"]
    ELSE [sent |-> <<>>, err |-> NoErr]

InsertStart ==
    /\ \E n \in ObjectCounts : iObjects = [i \in 1 .. n |-> i]
    /\ iPos = 0
    /\ iItems = <<>>
    /\ iCalls = <<>>
    /\ iErr = NoErr
    /\ iPc = "loop"

InsertIdle ==
    /\ iObjects = <<>>
    /\ iPos = 0
    /\ iItems = <<>>
    /\ iCalls = <<>>
    /\ iErr = NoErr
    /\ iPc = "idle"

\* a round of the loop; ok: insertItems succeeds, if the round calls it
ILoop(ok) ==
    /\ iPc = "loop"
    /\ iPos < Len(iObjects)
    /\ LET r == InsertRound(iItems, iObjects[iPos + 1], ok) IN
        /\ (r.sent = <<>>) => ok
        /\ iItems' = r.items
        /\ iCalls' = iCalls \o r.sent
        /\ iErr' = r.err
        /\ iPc' = IF r.err # NoErr THEN "done" ELSE "loop"
        /\ iPos' = IF r.err # NoErr THEN iPos ELSE iPos + 1
    /\ UNCHANGED iObjects
    /\ UNCHANGED nonInsertVars

\* the end of Insert
ILast(ok) ==
    /\ iPc = "loop"
    /\ iPos = Len(iObjects)
    /\ LET r == InsertRest(iItems, ok) IN
        /\ (r.sent = <<>>) => ok
        /\ iCalls' = iCalls \o r.sent
        /\ iErr' = r.err
    /\ iPc' = "done"
    /\ UNCHANGED <<iObjects, iPos, iItems>>
    /\ UNCHANGED nonInsertVars

InsertNext ==
    \/ \E ok \in BOOLEAN : ILoop(ok)
    \/ \E ok \in BOOLEAN : ILast(ok)

(***************************************************************************)
(* Complete of a batch stream with the TableHelper's reconciliation (spec  *)
(* 4.2, steps 2 to 6): the cached actual table, CreateTable or             *)
(* PatchTableSchema of the delta, one retry after a schema drift error,    *)
(* then the load and the commit.  A table is the set of its columns.  An   *)
(* external actor may add columns to the table at any time.                *)
(***************************************************************************)
EnsureColumns == {"c1", "c2", "c3"}

NoCache == [known |-> FALSE, cols |-> {}]

\* what a statement of the stream's transaction sees of the table
Visible == eWarehouse \cup eTxCols

\* steps 3 and 4: the DDL request for the desired table given the actual
\* table the helper believes in; the warehouse refuses to create a table that
\* exists and to add a column that exists or to a table that does not
EnsureTable(actual, visible, desired, ok) ==
    LET delta == desired \ actual IN
    IF actual = {}
    THEN IF visible # {} THEN [err |-> "schema_drift", added |-> {}]
         ELSE IF ~ok THEN [err |-> "create_table_failed", added |-> {}]
         ELSE [err |-> NoErr, added |-> desired]
    ELSE IF delta = {} THEN [err |-> NoErr, added |-> {}]
    ELSE IF visible = {} \/ delta \cap visible # {}
         THEN [err |-> "schema_drift", added |-> {}]
    ELSE IF ~ok THEN [err |-> "patch_table_failed", added |-> {}]
    ELSE [err |-> NoErr, added |-> delta]

\* step 6: a schema drift error is retried once
Retried(attempts, err) == err = "schema_drift" /\ attempts = <<>>

EnsureStart ==
    /\ eAdapter \in {"postgres", "bigquery"}
    /\ eDesired \in {cols \in SUBSET EnsureColumns : "c1" \in cols}
    /\ eWarehouse \in {{}, {"c1"}}
    /\ eTxCols = {}
    /\ eCache = NoCache
    /\ eAttempts = <<>>
    /\ eLanded = 0
    /\ eState = [ZeroState EXCEPT !.Status = "Active"]
    /\ ePc = "open"

EnsureIdle ==
    /\ eAdapter = "postgres"
    /\ eDesired = {}
    /\ eWarehouse = {}
    /\ eTxCols = {}
    /\ eCache = NoCache
    /\ eAttempts = <<>>
    /\ eLanded = 0
    /\ eState = ZeroState
    /\ ePc = "idle"

\* step 2 at the first use of the table: fetch with GetTableSchema and cache
EFetch ==
    /\ ePc = "open"
    /\ ~eCache.known
    /\ eCache' = [known |-> TRUE, cols |-> Visible]
    /\ UNCHANGED <<eAdapter, eDesired, eWarehouse, eTxCols, eAttempts, eLanded, eState, ePc>>
    /\ UNCHANGED nonEnsureVars

\* the external actor adds a column to the table
EExternal(col) ==
    /\ ePc \in {"open", "retry", "load"}
    /\ col \notin Visible
    /\ eWarehouse' = eWarehouse \cup {col}
    /\ UNCHANGED <<eAdapter, eDesired, eTxCols, eCache, eAttempts, eLanded, eState, ePc>>
    /\ UNCHANGED nonEnsureVars

\* Complete: a commit attempt up to the DDL (steps 2 to 6).  A failure that
\* is not retried rolls the transaction back and ends Complete in
\* postComplete(err).
EReconcile(ok) ==
    /\ ePc \in {"open", "retry"}
    /\ LET actual == IF eCache.known THEN eCache.cols ELSE Visible
           r == EnsureTable(actual, Visible, eDesired, ok)
       IN  /\ eAttempts' = Append(eAttempts, r.err)
           /\ IF r.err = NoErr
              THEN /\ IF eAdapter = "postgres"
                      THEN eTxCols' = eTxCols \cup r.added /\ UNCHANGED eWarehouse
                      ELSE eWarehouse' = eWarehouse \cup r.added /\ UNCHANGED eTxCols
                   /\ eCache' = [known |-> TRUE, cols |-> actual \cup r.added]
                   /\ ePc' = "load"
                   /\ UNCHANGED eState
              ELSE IF Retried(eAttempts, r.err)
              THEN /\ eCache' = NoCache
                   /\ eTxCols' = {}
                   /\ ePc' = "retry"
                   /\ UNCHANGED <<eWarehouse, eState>>
              ELSE /\ eTxCols' = {}
                   /\ eState' = postComplete(eState, r.err).state
                   /\ ePc' = "done"
                   /\ UNCHANGED <<eWarehouse, eCache>>
    /\ UNCHANGED <<eAdapter, eDesired, eLanded>>
    /\ UNCHANGED nonEnsureVars

\* Complete: LoadTable and the commit of the transaction; on an error the
\* transaction is rolled back
ELoadCommit(ok) ==
    /\ ePc = "load"
    /\ IF ok
       THEN /\ eWarehouse' = eWarehouse \cup eTxCols
            /\ eLanded' = eLanded + 1
            /\ eState' = postComplete(eState, NoErr).state
       ELSE /\ eState' = postComplete(eState, "load_failed").state
            /\ UNCHANGED <<eWarehouse, eLanded>>
    /\ eTxCols' = {}
    /\ ePc' = "done"
    /\ UNCHANGED <<eAdapter, eDesired, eCache, eAttempts>>
    /\ UNCHANGED nonEnsureVars

EnsureNext ==
    \/ EFetch
    \/ \E col \in EnsureColumns : EExternal(col)
    \/ \E ok \in BOOLEAN : EReconcile(ok)
    \/ \E ok \in BOOLEAN : ELoadCommit(ok)

(***************************************************************************)
(* BigQuery.LoadTable, bigquery.go:513-563.  A field of a schema is        *)
(* identified by its name; the staging file has the columns of             *)
(* targetTable in the order of SortedColumnNames.                          *)
(***************************************************************************)
\* the column names in ascending order
LoadNameOrder == <<"a", "b", "c", "d">>

LoadNames == {LoadNameOrder[i] : i \in DOMAIN LoadNameOrder}

\* Table.SortedColumnNames of a table with these columns
SortedNames(columns) == SelectSeq(LoadNameOrder, LAMBDA n : n \in columns)

\* the schemas a destination table can have: no field twice, any order
\* (CreateTable writes the columns sorted, PatchTableSchema appends)
DestSchemas ==
    {q \in SeqsUpTo({"a", "b", "c"}, 3) :
        q # <<>> /\ \A i, j \in DOMAIN q : q[i] = q[j] => i = j}

\* bigquery.go:537-546: mp is built from meta.Schema, then position i of
\* meta.Schema is overwritten with the field of the i-th sorted column
RECURSIVE LoadSchema(_, _, _, _)
LoadSchema(schema, mp, sorted, i) ==
    IF i > Len(sorted) THEN [schema |-> schema, err |-> NoErr]
    ELSE IF sorted[i] \notin mp
         THEN [schema |-> schema, err |-> "field_not_in_table_schema"]
         ELSE LoadSchema([schema EXCEPT ![i] = sorted[i]], mp, sorted, i + 1)

LoadStart ==
    /\ lDest \in DestSchemas
    /\ lColumns \in (SUBSET LoadNames) \ {{}}
    /\ lSchema = <<>>
    /\ lJob = FALSE
    /\ lErr = NoErr
    /\ lPc = "start"

LoadIdle ==
    /\ lDest = <<>>
    /\ lColumns = {}
    /\ lSchema = <<>>
    /\ lJob = FALSE
    /\ lErr = NoErr
    /\ lPc = "idle"

\* okOpen: os.Open succeeds; okMeta: Metadata succeeds (its error is
\* overwritten without being read, and meta is nil then, so that meta.Schema
\* panics); okJob: the load job succeeds
BQLoadTable(okOpen, okMeta, okJob) ==
    /\ lPc = "start"
    /\ lPc' = "done"
    /\ IF ~okOpen
       THEN lErr' = "open_failed" /\ UNCHANGED <<lSchema, lJob>>
       ELSE IF ~okMeta
       THEN lErr' = "panic" /\ UNCHANGED <<lSchema, lJob>>
       ELSE LET r == LoadSchema(lDest, {lDest[i] : i \in DOMAIN lDest},
                                SortedNames(lColumns), 1) IN
            IF r.err # NoErr
            THEN lErr' = r.err /\ UNCHANGED <<lSchema, lJob>>
            ELSE /\ lSchema' = r.schema
                 /\ lJob' = TRUE
                 /\ lErr' = IF okJob THEN NoErr ELSE "job_failed"
    /\ UNCHANGED <<lDest, lColumns>>
    /\ UNCHANGED nonLoadVars

LoadNext == \E okOpen, okMeta, okJob \in BOOLEAN : BQLoadTable(okOpen, okMeta, okJob)

(***************************************************************************)
(* Postgres.LoadTable, part_001:276-339, record by record.  The file is    *)
(* the sequence of its records as the csv.Reader splits them; a record is  *)
(* the sequence of its fields.                                             *)
(***************************************************************************)
\* the header row of the staging file
CsvHeader == <<"c1", "c2">>

\* the data records: two fields each
CsvRecords == [1 .. 2 -> {"x", "\\N"}]

\* the staging files: empty, or the header row and some data records
CsvFiles == {<<>>} \cup {<<CsvHeader>> \o q : q \in SeqsUpTo(CsvRecords, MaxFileRows)}

\* a nil argument of ExecContext
SqlNull == "<nil>"

LoadSourceTypes == {"LocalFile", "other"}

LoadSourceFormats == {"CSV", "NDJSON"}

\* part_001:321-328: the arguments of ExecContext for one record
copyArgs(record) ==
    [i \in DOMAIN record |-> IF record[i] = "\\N" THEN SqlNull ELSE record[i]]

PgLoadStart ==
    /\ pFile \in CsvFiles
    /\ pPos = 0
    /\ pSent = <<>>
    /\ pFault = FALSE
    /\ pErr = NoErr
    /\ pPc = "start"

PgLoadIdle ==
    /\ pFile = <<>>
    /\ pPos = 0
    /\ pSent = <<>>
    /\ pFault = FALSE
    /\ pErr = NoErr
    /\ pPc = "idle"

\* part_001:277-311: the checks of loadSource, PrepareContext and os.Open
PGLoadOpen(type, format, okPrepare, okOpen) ==
    /\ pPc = "start"
    /\ IF type # "LocalFile" THEN pErr' = "only_local_file" /\ pPc' = "done" /\ UNCHANGED pFault
       ELSE IF format # "CSV" THEN pErr' = "only_csv" /\ pPc' = "done" /\ UNCHANGED pFault
       ELSE IF ~okPrepare THEN pErr' = "prepare_failed" /\ pPc' = "done" /\ pFault' = TRUE
       ELSE IF ~okOpen THEN pErr' = "open_failed" /\ pPc' = "done" /\ pFault' = TRUE
       ELSE pPc' = "header" /\ UNCHANGED <<pErr, pFault>>
    /\ UNCHANGED <<pFile, pPos, pSent>>
    /\ UNCHANGED nonPgLoadVars

\* part_001:313: `_, _ = reader.Read()`.  At the end of the file Read returns
\* io.EOF; otherwise it consumes a record and returns it (okRead) or an error.
\* Both results are discarded.
PGSkipHeader(okRead) ==
    /\ pPc = "header"
    /\ pPc' = "rows"
    /\ IF pPos < Len(pFile)
       THEN pPos' = pPos + 1 /\ pFault' = (pFault \/ ~okRead)
       ELSE okRead /\ UNCHANGED <<pPos, pFault>>
    /\ UNCHANGED <<pFile, pSent, pErr>>
    /\ UNCHANGED nonPgLoadVars

\* part_001:314-332: one round of the loop that reads a record
PGLoadRecord(okRead, okExec) ==
    /\ pPc = "rows"
    /\ pPos < Len(pFile)
    /\ IF ~okRead
       THEN /\ okExec
            /\ pErr' = "read_failed" /\ pPc' = "done" /\ pFault' = TRUE
            /\ pPos' = pPos + 1
            /\ UNCHANGED pSent
       ELSE /\ pPos' = pPos + 1
            /\ pSent' = Append(pSent, copyArgs(pFile[pPos + 1]))
            /\ IF okExec
               THEN UNCHANGED <<pErr, pPc, pFault>>
               ELSE pErr' = "exec_failed" /\ pPc' = "done" /\ pFault' = TRUE
    /\ UNCHANGED pFile
    /\ UNCHANGED nonPgLoadVars

\* part_001:315-317 and 333-338: io.EOF ends the loop, then the closing
\* ExecContext and stmt.Close
PGLoadFlush(okExec, okClose) ==
    /\ pPc = "rows"
    /\ pPos = Len(pFile)
    /\ pPc' = "done"
    /\ IF ~okExec THEN okClose /\ pErr' = "exec_failed" /\ pFault' = TRUE
       ELSE IF ~okClose THEN pErr' = "close_failed" /\ pFault' = TRUE
       ELSE UNCHANGED <<pErr, pFault>>
    /\ UNCHANGED <<pFile, pPos, pSent>>
    /\ UNCHANGED nonPgLoadVars

PgLoadNext ==
    \/ \E type \in LoadSourceTypes, format \in LoadSourceFormats, okPrepare, okOpen \in BOOLEAN :
           PGLoadOpen(type, format, okPrepare, okOpen)
    \/ \E okRead \in BOOLEAN : PGSkipHeader(okRead)
    \/ \E okRead, okExec \in BOOLEAN : PGLoadRecord(okRead, okExec)
    \/ \E okExec, okClose \in BOOLEAN : PGLoadFlush(okExec, okClose)

(***************************************************************************)
(* DropTable of the BigQuery adapter (bigquery.go:566-588 and              *)
(* part_002:426-441) and of the ClickHouse adapter (part_000:585-615).     *)
(* The warehouse is the set of the names of its tables; deleting a         *)
(* missing table is a 404 on BigQuery and an error of DROP TABLE without   *)
(* IF EXISTS on ClickHouse.                                                *)
(***************************************************************************)
DropNames == {"t", "u"}

fullDistTableName(name) == "dist_" \o name

NoDrop == [name |-> "", ifExists |-> FALSE, pre |-> {}, err |-> "not_called", fault |-> FALSE]

\* part_000:596-615: DROP TABLE [IF EXISTS] fullTableName; ok: the statement
\* is not failed by the connection
chDropTable(tables, fullTableName, ifExists, ok) ==
    IF ~ok THEN [tables |-> tables, err |-> "drop_failed"]
    ELSE IF fullTableName \in tables THEN [tables |-> tables \ {fullTableName}, err |-> NoErr]
    ELSE IF ifExists THEN [tables |-> tables, err |-> NoErr]
    ELSE [tables |-> tables, err |-> "drop_failed"]

DropStart ==
    /\ dAdapter \in {"bigquery", "bigquery_v1", "clickhouse", "clickhouse_cluster"}
    /\ \E local \in SUBSET DropNames :
          dTables = local \cup (IF dAdapter = "clickhouse_cluster"
                                THEN {fullDistTableName(n) : n \in local} ELSE {})
    /\ dCall = NoDrop

DropIdle ==
    /\ dAdapter = "bigquery"
    /\ dTables = {}
    /\ dCall = [NoDrop EXCEPT !.err = "idle"]

\* bigquery.go:566-588; okMeta: Metadata is not failed by the connection,
\* okDelete: neither is Delete
BQDropTable(name, ifExists, okMeta, okDelete) ==
    /\ dAdapter = "bigquery"
    /\ LET metaErr == IF ~okMeta THEN "unavailable"
                      ELSE IF name \notin dTables THEN "404" ELSE NoErr IN
       IF metaErr = "404" /\ ifExists
       THEN /\ okDelete
            /\ dCall' = [name |-> name, ifExists |-> ifExists, pre |-> dTables,
                         err |-> NoErr, fault |-> FALSE]
            /\ UNCHANGED dTables
       ELSE /\ dTables' = IF okDelete THEN dTables \ {name} ELSE dTables
            /\ dCall' = [name |-> name, ifExists |-> ifExists, pre |-> dTables,
                         err |-> IF okDelete /\ name \in dTables THEN NoErr ELSE "drop_failed",
                         fault |-> ~okMeta \/ ~okDelete]
    /\ UNCHANGED dAdapter
    /\ UNCHANGED nonDropVars

\* part_002:426-441: Delete, whatever ifExists is
BQV1DropTable(name, ifExists, okDelete) ==
    /\ dAdapter = "bigquery_v1"
    /\ dTables' = IF okDelete THEN dTables \ {name} ELSE dTables
    /\ dCall' = [name |-> name, ifExists |-> ifExists, pre |-> dTables,
                 err |-> IF okDelete /\ name \in dTables THEN NoErr ELSE "drop_failed",
                 fault |-> ~okDelete]
    /\ UNCHANGED dAdapter
    /\ UNCHANGED nonDropVars

\* part_000:585-594: the table, then on a cluster its Distributed table
CHDropTable(name, ifExists, okLocal, okDist) ==
    /\ dAdapter \in {"clickhouse", "clickhouse_cluster"}
    /\ LET local == chDropTable(dTables, name, ifExists, okLocal)
           dist == chDropTable(local.tables, fullDistTableName(name), TRUE, okDist)
           r == IF local.err # NoErr THEN local
                ELSE IF dAdapter = "clickhouse_cluster" THEN dist
                ELSE local IN
        /\ (local.err # NoErr \/ dAdapter = "clickhouse") => okDist
        /\ dTables' = r.tables
        /\ dCall' = [name |-> name, ifExists |-> ifExists, pre |-> dTables,
                     err |-> r.err, fault |-> ~okLocal \/ ~okDist]
    /\ UNCHANGED dAdapter
    /\ UNCHANGED nonDropVars

DropNext ==
    \/ \E name \in DropNames, ifExists, okMeta, okDelete \in BOOLEAN :
           BQDropTable(name, ifExists, okMeta, okDelete)
    \/ \E name \in DropNames, ifExists, okDelete \in BOOLEAN :
           BQV1DropTable(name, ifExists, okDelete)
    \/ \E name \in DropNames, ifExists, okLocal, okDist \in BOOLEAN :
           CHDropTable(name, ifExists, okLocal, okDist)

(***************************************************************************)
(* BigQuery.DeletePartition and GranularityToPartitionIds,                 *)
(* bigquery.go:416-469 (the same in part_002:328-380).  A time is          *)
(* [y, m, d, h] in the Gregorian calendar from 2023 on; a partition id is  *)
(* the number its digits spell (20240115 for "20240115").                  *)
(***************************************************************************)
Granularities == {"ALL", "HOUR", "DAY", "WEEK", "MONTH", "QUARTER", "YEAR"}

DaysIn(y, m) ==
    IF m = 2 THEN (IF y % 4 = 0 /\ (y % 100 # 0 \/ y % 400 = 0) THEN 29 ELSE 28)
    ELSE IF m \in {4, 6, 9, 11} THEN 30 ELSE 31

\* the number of days from 2023-01-01 to the first day of month m of year y
RECURSIVE DaysBefore(_, _)
DaysBefore(y, m) ==
    IF y = 2023 /\ m = 1 THEN 0
    ELSE IF m = 1 THEN DaysBefore(y - 1, 12) + DaysIn(y - 1, 12)
    ELSE DaysBefore(y, m - 1) + DaysIn(y, m - 1)

\* the date n >= 0 days after the first day of month m of year y
RECURSIVE DateFrom(_, _, _)
DateFrom(y, m, n) ==
    IF n < DaysIn(y, m) THEN [y |-> y, m |-> m, d |-> n + 1]
    ELSE IF m = 12 THEN DateFrom(y + 1, 1, n - DaysIn(y, m))
    ELSE DateFrom(y, m + 1, n - DaysIn(y, m))

\* time.Time.AddDate: the fields are added, then the date is normalized
\* through the number of days since the start of the calendar
AddDate(t, years, months, days) ==
    LET mm == t.m - 1 + months
        y == t.y + years + (mm \div 12)
        m == (mm % 12) + 1
        date == DateFrom(2023, 1, DaysBefore(y, m) + t.d - 1 + days) IN
    [y |-> date.y, m |-> date.m, d |-> date.d, h |-> t.h]

\* time.Time.Weekday: 0 is Sunday; 2023-01-01 was a Sunday
Weekday(t) == (DaysBefore(t.y, t.m) + t.d - 1) % 7

\* Granularity.Lower: the first instant of the window t lies in (weeks
\* start on Monday)
Lower(g, t) ==
    CASE g = "HOUR" -> t
      [] g = "DAY" -> [t EXCEPT !.h = 0]
      [] g = "WEEK" -> [AddDate(t, 0, 0, 0 - ((Weekday(t) + 6) % 7)) EXCEPT !.h = 0]
      [] g = "MONTH" -> [t EXCEPT !.d = 1, !.h = 0]
      [] g = "QUARTER" -> [t EXCEPT !.m = 3 * ((t.m - 1) \div 3) + 1, !.d = 1, !.h = 0]
      [] g = "YEAR" -> [t EXCEPT !.m = 1, !.d = 1, !.h = 0]
      [] OTHER -> t

\* time.Time.Format with the layouts of GranularityToPartitionIds
Format(t, layout) ==
    CASE layout = "2006010215" -> ((t.y * 100 + t.m) * 100 + t.d) * 100 + t.h
      [] layout = "20060102" -> (t.y * 100 + t.m) * 100 + t.d
      [] layout = "200601" -> t.y * 100 + t.m
      [] layout = "2006" -> t.y

\* a week of six days
GranularityToPartitionIds_weekOfSix(g, t) ==
    LET l == Lower(g, t) IN
    CASE g = "HOUR" -> <<Format(l, "2006010215")>>
      [] g = "DAY" -> <<Format(l, "20060102")>>
      [] g = "WEEK" -> [i \in 1 .. 6 |-> Format(AddDate(l, 0, 0, i - 1), "20060102")]
      [] g = "MONTH" -> <<Format(l, "200601")>>
      [] g = "QUARTER" -> [i \in 1 .. 3 |-> Format(AddDate(l, 0, i - 1, 0), "200601")]
      [] g = "YEAR" -> <<Format(l, "2006")>>
      [] OTHER -> <<>>

\* bigquery.go:442-469
GranularityToPartitionIds(g, t) ==
    LET l == Lower(g, t) IN
    CASE g = "HOUR" -> <<Format(l, "2006010215")>>
      [] g = "DAY" -> <<Format(l, "20060102")>>
      [] g = "WEEK" -> [i \in 1 .. 7 |-> Format(AddDate(l, 0, 0, i - 1), "20060102")]
      [] g = "MONTH" -> <<Format(l, "200601")>>
      [] g = "QUARTER" -> [i \in 1 .. 3 |-> Format(AddDate(l, 0, i - 1, 0), "200601")]
      [] g = "YEAR" -> <<Format(l, "2006")>>
      [] OTHER -> <<>>

\* the values of datePartition.Value
PartitionTimes ==
    {[y |-> 2023, m |-> 1, d |-> 2, h |-> 0],
     [y |-> 2023, m |-> 3, d |-> 1, h |-> 13],
     [y |-> 2023, m |-> 12, d |-> 31, h |-> 23],
     [y |-> 2024, m |-> 2, d |-> 29, h |-> 13],
     [y |-> 2024, m |-> 3, d |-> 2, h |-> 0],
     [y |-> 2024, m |-> 11, d |-> 30, h |-> 23],
     [y |-> 2024, m |-> 12, d |-> 31, h |-> 0]}

PartStart ==
    /\ qGranularity \in Granularities
    /\ qValue \in PartitionTimes
    /\ qTried = <<>>
    /\ qErr = NoErr
    /\ qPc = "loop"

PartIdle ==
    /\ qGranularity = "ALL"
    /\ qValue = [y |-> 2023, m |-> 1, d |-> 2, h |-> 0]
    /\ qTried = <<>>
    /\ qErr = NoErr
    /\ qPc = "idle"

\* bigquery.go:419-437: one round of the loop; outcome is what Delete of
\* the partition returns
BQDeletePartition(outcome) ==
    /\ qPc = "loop"
    /\ LET partitions == GranularityToPartitionIds(qGranularity, qValue) IN
        /\ Len(qTried) < Len(partitions)
        /\ qTried' = Append(qTried, [id |-> partitions[Len(qTried) + 1], outcome |-> outcome])
    /\ IF outcome = "error"
       THEN qErr' = "failed_to_delete_partition" /\ qPc' = "done"
       ELSE UNCHANGED <<qErr, qPc>>
    /\ UNCHANGED <<qGranularity, qValue>>
    /\ UNCHANGED nonPartVars

\* bigquery.go:439: the loop is over
BQDeletePartitionReturns ==
    /\ qPc = "loop"
    /\ Len(qTried) = Len(GranularityToPartitionIds(qGranularity, qValue))
    /\ qPc' = "done"
    /\ UNCHANGED <<qGranularity, qValue, qTried, qErr>>
    /\ UNCHANGED nonPartVars

PartNext ==
    \/ \E outcome \in {"ok", "404", "error"} : BQDeletePartition(outcome)
    \/ BQDeletePartitionReturns

(***************************************************************************)
(* BigQuery.CreateTable, bigquery.go:310-330 and part_002:238-251: the     *)
(* time partitioning of the created table.  The zero value of              *)
(* bigquery.TimePartitioningType is the empty string.                      *)
(***************************************************************************)
NoTimePartitioning == [Field |-> "", Type |-> "none"]

\* bigquery.go:310-327: a timestamp column partitions by month when there is
\* no partition field; the switch has no case for HOUR
BigQueryTimePartitioning(table) ==
    LET partition == IF table.Field = "" /\ table.TimestampColumn # ""
                     THEN [Field |-> table.TimestampColumn, Granularity |-> "MONTH"]
                     ELSE [Field |-> table.Field, Granularity |-> table.Granularity] IN
    IF partition.Field # "" /\ partition.Granularity # "ALL"
    THEN [Field |-> partition.Field,
          Type |-> CASE partition.Granularity \in {"DAY", "WEEK"} -> "DAY"
                     [] partition.Granularity \in {"MONTH", "QUARTER"} -> "MONTH"
                     [] partition.Granularity = "YEAR" -> "YEAR"
                     [] OTHER -> ""]
    ELSE NoTimePartitioning

\* part_002:238-251: the cases DAY and MONTH are empty (a case of a Go switch
\* does not fall through to the next), HOUR has none
BigQueryV1TimePartitioning(table) ==
    IF table.Field # "" /\ table.Granularity # "ALL"
    THEN [Field |-> table.Field,
          Type |-> CASE table.Granularity = "WEEK" -> "DAY"
                     [] table.Granularity = "QUARTER" -> "MONTH"
                     [] table.Granularity = "YEAR" -> "YEAR"
                     [] OTHER -> ""]
    ELSE NoTimePartitioning

MetaStart ==
    /\ mAdapter \in {"bigquery", "bigquery_v1"}
    /\ mTable \in [Field : {"", "day"}, Granularity : Granularities,
                   TimestampColumn : {"", "ts"}, Temporary : BOOLEAN]
    /\ mMeta = [TimePartitioning |-> NoTimePartitioning, Expires |-> FALSE]
    /\ mErr = NoErr
    /\ mPc = "start"

MetaIdle ==
    /\ mAdapter = "bigquery"
    /\ mTable = [Field |-> "", Granularity |-> "ALL", TimestampColumn |-> "", Temporary |-> FALSE]
    /\ mMeta = [TimePartitioning |-> NoTimePartitioning, Expires |-> FALSE]
    /\ mErr = NoErr
    /\ mPc = "idle"

\* bigquery.go:281-345; ok: bqTable.Create succeeds
BQCreatePartitioned(ok) ==
    /\ mAdapter = "bigquery"
    /\ mPc = "start"
    /\ mMeta' = [TimePartitioning |-> BigQueryTimePartitioning(mTable),
                 Expires |-> mTable.Temporary]
    /\ mErr' = IF ok THEN NoErr ELSE "failed_to_create_table"
    /\ mPc' = "done"
    /\ UNCHANGED <<mAdapter, mTable>>
    /\ UNCHANGED nonMetaVars

\* part_002:215-264; the earlier revision reads neither TimestampColumn nor
\* Temporary
BQV1CreatePartitioned(ok) ==
    /\ mAdapter = "bigquery_v1"
    /\ mPc = "start"
    /\ mMeta' = [TimePartitioning |-> BigQueryV1TimePartitioning(mTable),
                 Expires |-> FALSE]
    /\ mErr' = IF ok THEN NoErr ELSE "failed_to_create_table"
    /\ mPc' = "done"
    /\ UNCHANGED <<mAdapter, mTable>>
    /\ UNCHANGED nonMetaVars

MetaNext ==
    \/ \E ok \in BOOLEAN : BQCreatePartitioned(ok)
    \/ \E ok \in BOOLEAN : BQV1CreatePartitioned(ok)

(***************************************************************************)
(* AbstractSQLStream.init, abstract.go:83-93, of two streams on one        *)
(* adapter.  dbErr is what InitDatabase returns when it is called.         *)
(***************************************************************************)
\* init that remembers a failed InitDatabase as done
init_initedOnFailure(wasInited, dbErr) ==
    IF ~wasInited
    THEN [called |-> TRUE, inited |-> TRUE, err |-> dbErr]
    ELSE [called |-> FALSE, inited |-> wasInited, err |-> NoErr]

\* abstract.go:83-93
init(wasInited, dbErr) ==
    IF ~wasInited
    THEN [called |-> TRUE, inited |-> (dbErr = NoErr), err |-> dbErr]
    ELSE [called |-> FALSE, inited |-> wasInited, err |-> NoErr]

DbStart ==
    /\ inited = [s \in Slots |-> FALSE]
    /\ initLog = <<>>

DbIdle ==
    /\ inited = [s \in {} |-> FALSE]
    /\ initLog = <<>>

\* a call of init on stream s
StreamInitCall(s, dbErr) ==
    /\ Len(initLog) < MaxCalls
    /\ LET r == init(inited[s], dbErr) IN
        /\ inited' = [inited EXCEPT ![s] = r.inited]
        /\ initLog' = Append(initLog, [stream |-> s, called |-> r.called,
                                       dbErr |-> dbErr, err |-> r.err])
    /\ UNCHANGED nonDbVars

DbNext == \E s \in Slots, dbErr \in Errs \cup {NoErr} : StreamInitCall(s, dbErr)

(***************************************************************************)
(* ClickHouse.Insert, part_000:392-456, and ClickHouse.LoadTable,          *)
(* part_000:459-548: BeginTx on ch.dataSource, PrepareContext, one         *)
(* ExecContext per row, Commit; a deferred function rolls back when the    *)
(* call returns an error.  A method called on a nil *sql.Tx dereferences   *)
(* it, which is a runtime panic.                                           *)
(***************************************************************************)
ChTxStart ==
    /\ uOp \in {"Insert", "LoadTable"}
    /\ uHttpMode \in BOOLEAN
    /\ uRows \in SeqsUpTo(Rows, 2)
    /\ uTx = "unset"
    /\ uLog = <<>>
    /\ uDest = <<>>
    /\ uErr = NoErr
    /\ uPc = "start"

ChTxIdle ==
    /\ uOp = "Insert"
    /\ uHttpMode = FALSE
    /\ uRows = <<>>
    /\ uTx = "unset"
    /\ uLog = <<>>
    /\ uDest = <<>>
    /\ uErr = NoErr
    /\ uPc = "idle"

\* part_000:393-406 and 460-476.  Insert in HTTP mode hands over to
\* ch.insert, which opens no transaction (ok: it succeeds).  Otherwise
\* BeginTx: when it fails (~ok) its error is wrapped and assigned to err, and
\* the function goes on with tx = nil.  LoadTable first checks loadSource.
CHTxBegin(ok, okSource) ==
    /\ uPc = "start"
    /\ IF uOp = "Insert" /\ uHttpMode
       THEN /\ okSource
            /\ uDest' = IF ok THEN uDest \o uRows ELSE uDest
            /\ uErr' = IF ok THEN NoErr ELSE "insert_failed"
            /\ uPc' = "done"
            /\ UNCHANGED uTx
       ELSE IF uOp = "LoadTable" /\ ~okSource
       THEN /\ ok
            /\ uErr' = "unsupported_load_source"
            /\ uPc' = "done"
            /\ UNCHANGED <<uTx, uDest>>
       ELSE /\ (uOp = "Insert") => okSource
            /\ uTx' = IF ok THEN "open" ELSE "nil"
            /\ uErr' = IF ok THEN NoErr ELSE "failed_to_open_transaction"
            /\ uPc' = "prepare"
            /\ UNCHANGED uDest
    /\ UNCHANGED <<uOp, uHttpMode, uRows, uLog>>
    /\ UNCHANGED nonChTxVars

\* part_000:434-437 and 502-515: tx.PrepareContext (and os.Open in
\* LoadTable); an error returns through the deferred tx.Rollback
CHTxPrepare(ok) ==
    /\ uPc = "prepare"
    /\ IF uTx = "nil"
       THEN /\ ok
            /\ uPc' = "panic"
            /\ UNCHANGED <<uTx, uLog, uErr>>
       ELSE IF ok
       THEN /\ uLog' = Append(uLog, "prepare")
            /\ uPc' = "rows"
            /\ UNCHANGED <<uTx, uErr>>
       ELSE /\ uTx' = "rolled_back"
            /\ uErr' = "prepare_failed"
            /\ uPc' = "done"
            /\ UNCHANGED uLog
    /\ UNCHANGED <<uOp, uHttpMode, uRows, uDest>>
    /\ UNCHANGED nonChTxVars

\* part_000:442-453 and 517-537: the next row: convertType and
\* stmt.ExecContext (for LoadTable also the decoding of the line)
CHTxRow(ok) ==
    /\ uPc = "rows"
    /\ Len(uLog) - 1 < Len(uRows)
    /\ IF ok
       THEN /\ uLog' = Append(uLog, uRows[Len(uLog)])
            /\ UNCHANGED <<uTx, uErr, uPc>>
       ELSE /\ uTx' = "rolled_back"
            /\ uErr' = "exec_failed"
            /\ uPc' = "done"
            /\ UNCHANGED uLog
    /\ UNCHANGED <<uOp, uHttpMode, uRows, uDest>>
    /\ UNCHANGED nonChTxVars

\* part_000:455 and 539: return tx.Commit()
CHTxCommit(ok) ==
    /\ uPc = "rows"
    /\ Len(uLog) - 1 = Len(uRows)
    /\ uTx' = IF ok THEN "committed" ELSE "rolled_back"
    /\ uDest' = IF ok THEN uDest \o uRows ELSE uDest
    /\ uErr' = IF ok THEN NoErr ELSE "commit_failed"
    /\ uPc' = "done"
    /\ UNCHANGED <<uOp, uHttpMode, uRows, uLog>>
    /\ UNCHANGED nonChTxVars

ChTxNext ==
    \/ \E ok, okSource \in BOOLEAN : CHTxBegin(ok, okSource)
    \/ \E ok \in BOOLEAN : CHTxPrepare(ok)
    \/ \E ok \in BOOLEAN : CHTxRow(ok)
    \/ \E ok \in BOOLEAN : CHTxCommit(ok)

(***************************************************************************)
(* BigQuery.toWhenConditions and BigQuery.Delete, bigquery.go:840-886.     *)
(* The WHERE text is the sequence of its clauses with the join word        *)
(* between them; a clause is [Column, Clause, Param], Param being the name *)
(* of its query parameter or "" when it has none.                          *)
(***************************************************************************)
Null == "NULL"

WhenFields == {"a", "b"}

WhenClauses == {"is null", "IS NOT NULL", "="}

WhenConditionSets ==
    [Conditions : SeqsUpTo([Field : WhenFields, Clause : WhenClauses, Value : {"1"}], 2),
     JoinCondition : {"AND", "OR"}]

\* the rows of the table
WhenRows == [WhenFields -> {Null, "1", "2"}]

\* strings.ToLower of a clause
clauseToLower(clause) ==
    CASE clause = "IS NOT NULL" -> "is not null"
      [] clause = "IS NULL" -> "is null"
      [] OTHER -> clause

\* bigquery.go:846-856: the clause and the parameters one condition adds;
\* the case "is null" has no statements
whenClause(condition) ==
    CASE clauseToLower(condition.Clause) = "is null" ->
            [clauses |-> <<>>, values |-> <<>>]
      [] clauseToLower(condition.Clause) = "is not null" ->
            [clauses |-> <<[Column |-> condition.Field, Clause |-> condition.Clause, Param |-> ""]>>,
             values |-> <<>>]
      [] OTHER ->
            [clauses |-> <<[Column |-> condition.Field, Clause |-> condition.Clause,
                            Param |-> "when_" \o condition.Field]>>,
             values |-> <<[Name |-> "when_" \o condition.Field, Value |-> condition.Value]>>]

\* bigquery.go:840-859
RECURSIVE toWhenConditionsFrom(_, _, _, _)
toWhenConditionsFrom(conditions, i, queryConditions, values) ==
    IF i > Len(conditions.Conditions)
    THEN [text |-> Join(queryConditions, [Join |-> conditions.JoinCondition]), values |-> values]
    ELSE LET c == whenClause(conditions.Conditions[i]) IN
         toWhenConditionsFrom(conditions, i + 1, queryConditions \o c.clauses, values \o c.values)

toWhenConditions(conditions) == toWhenConditionsFrom(conditions, 1, <<>>, <<>>)

\* the value of the query parameter of that name
ParamValue(values, name) ==
    values[CHOOSE i \in DOMAIN values : values[i].Name = name].Value

\* whether a row satisfies a clause of the statement
ClauseHolds(row, clause, values) ==
    CASE clauseToLower(clause.Clause) = "is null" -> row[clause.Column] = Null
      [] clauseToLower(clause.Clause) = "is not null" -> row[clause.Column] # Null
      [] OTHER -> row[clause.Column] = ParamValue(values, clause.Param)

\* whether the warehouse selects a row for WHERE text: the clauses stand at
\* the odd positions, the join word between them
WhereHolds(row, text, values) ==
    LET n == (Len(text) + 1) \div 2 IN
    IF Len(text) >= 2 /\ text[2].Join = "OR"
    THEN \E i \in 1 .. n : ClauseHolds(row, text[2 * i - 1], values)
    ELSE \A i \in 1 .. n : ClauseHolds(row, text[2 * i - 1], values)

NoDelete == [text |-> <<>>, values |-> <<>>, ran |-> FALSE, err |-> "not_called"]

WhenStart ==
    /\ wConditions \in WhenConditionSets
    /\ wTable = WhenRows
    /\ wCall = NoDelete
    /\ wPc = "start"

WhenIdle ==
    /\ wConditions = [Conditions |-> <<>>, JoinCondition |-> "AND"]
    /\ wTable = {}
    /\ wCall = NoDelete
    /\ wPc = "idle"

\* bigquery.go:860-886; ok: the job of the DELETE statement succeeds
BQDelete(ok) ==
    /\ wPc = "start"
    /\ wPc' = "done"
    /\ LET when == toWhenConditions(wConditions) IN
       IF Len(when.text) = 0
       THEN /\ ok
            /\ wCall' = [text |-> when.text, values |-> when.values, ran |-> FALSE,
                         err |-> "delete conditions are empty"]
            /\ UNCHANGED wTable
       ELSE /\ wCall' = [text |-> when.text, values |-> when.values, ran |-> TRUE,
                         err |-> IF ok THEN NoErr ELSE "failed_execute_delete"]
            /\ wTable' = IF ok THEN {row \in wTable : ~WhereHolds(row, when.text, when.values)}
                         ELSE wTable
    /\ UNCHANGED wConditions
    /\ UNCHANGED nonWhenVars

WhenNext == \E ok \in BOOLEAN : BQDelete(ok)

(***************************************************************************)
(* BigQuery.Ping, bigquery.go:217-237.  okProbe: the query "SELECT 1;"     *)
(* succeeds; okNew: bigquery.NewClient succeeds (with or without           *)
(* credentials, the two calls differ in their arguments only).             *)
(***************************************************************************)
\* bigquery.go:217-237; the result of NewClient is assigned to bq.client and
\* to the err that Ping returns
Ping(client, okProbe, okNew) ==
    IF ~client
    THEN [client |-> okNew, probe |-> "none", created |-> okNew,
          err |-> IF okNew THEN NoErr ELSE "new_client_failed"]
    ELSE IF okProbe
    THEN [client |-> client, probe |-> "ok", created |-> FALSE, err |-> NoErr]
    ELSE [client |-> okNew, probe |-> "failed", created |-> okNew,
          err |-> IF okNew THEN NoErr ELSE "new_client_failed"]

PingStart ==
    /\ zClient \in BOOLEAN
    /\ zCalls = <<>>

PingIdle ==
    /\ zClient = FALSE
    /\ zCalls = <<>>

BQPing(okProbe, okNew) ==
    /\ Len(zCalls) < MaxCalls
    /\ LET r == Ping(zClient, okProbe, okNew) IN
        /\ (r.probe = "none") => okProbe
        /\ (r.probe = "ok") => okNew
        /\ zClient' = r.client
        /\ zCalls' = Append(zCalls, [hadClient |-> zClient, probe |-> r.probe,
                                     created |-> r.created, err |-> r.err])
    /\ UNCHANGED nonPingVars

PingNext == \E okProbe, okNew \in BOOLEAN : BQPing(okProbe, okNew)

(***************************************************************************)
(* Specifications                                                          *)
(***************************************************************************)
StreamIdle ==
    /\ opts = [merge |-> FALSE, pk |-> {}]
    /\ newErr = NoErr
    /\ state = ZeroState
    /\ pc = "none"
    /\ pend = NoErr
    /\ call = NoCall
    /\ nErrors = 0
    /\ nRows = 0

StreamInit == StreamCreate /\ BatchIdle /\ ReplaceIdle /\ CopyIdle /\ SchemaIdle /\ HeaderIdle /\ JoinIdle /\ TypesIdle /\ GetIdle /\ CreateIdle /\ FileIdle /\ NameIdle /\ TxIdle /\ InsertIdle /\ EnsureIdle /\ LoadIdle /\ PgLoadIdle /\ DropIdle /\ PartIdle /\ MetaIdle /\ DbIdle /\ ChTxIdle /\ WhenIdle /\ PingIdle

SpecStream == StreamInit /\ [][StreamNext]_vars

BatchInit == BatchStart /\ StreamIdle /\ ReplaceIdle /\ CopyIdle /\ SchemaIdle /\ HeaderIdle /\ JoinIdle /\ TypesIdle /\ GetIdle /\ CreateIdle /\ FileIdle /\ NameIdle /\ TxIdle /\ InsertIdle /\ EnsureIdle /\ LoadIdle /\ PgLoadIdle /\ DropIdle /\ PartIdle /\ MetaIdle /\ DbIdle /\ ChTxIdle /\ WhenIdle /\ PingIdle

SpecBatch == BatchInit /\ [][BatchNext]_vars

ReplaceInit == ReplaceStart /\ StreamIdle /\ BatchIdle /\ CopyIdle /\ SchemaIdle /\ HeaderIdle /\ JoinIdle /\ TypesIdle /\ GetIdle /\ CreateIdle /\ FileIdle /\ NameIdle /\ TxIdle /\ InsertIdle /\ EnsureIdle /\ LoadIdle /\ PgLoadIdle /\ DropIdle /\ PartIdle /\ MetaIdle /\ DbIdle /\ ChTxIdle /\ WhenIdle /\ PingIdle

SpecReplace == ReplaceInit /\ [][ReplaceNext]_vars

CopyInit == CopyStart /\ StreamIdle /\ BatchIdle /\ ReplaceIdle /\ SchemaIdle /\ HeaderIdle /\ JoinIdle /\ TypesIdle /\ GetIdle /\ CreateIdle /\ FileIdle /\ NameIdle /\ TxIdle /\ InsertIdle /\ EnsureIdle /\ LoadIdle /\ PgLoadIdle /\ DropIdle /\ PartIdle /\ MetaIdle /\ DbIdle /\ ChTxIdle /\ WhenIdle /\ PingIdle

SpecCopy == CopyInit /\ [][CopyNext]_vars

SchemaInit == SchemaStart /\ StreamIdle /\ BatchIdle /\ ReplaceIdle /\ CopyIdle /\ HeaderIdle /\ JoinIdle /\ TypesIdle /\ GetIdle /\ CreateIdle /\ FileIdle /\ NameIdle /\ TxIdle /\ InsertIdle /\ EnsureIdle /\ LoadIdle /\ PgLoadIdle /\ DropIdle /\ PartIdle /\ MetaIdle /\ DbIdle /\ ChTxIdle /\ WhenIdle /\ PingIdle

SpecSchema == SchemaInit /\ [][SchemaNext]_vars

LabelsInit == SchemaInit /\ sAdapter = "bigquery"

SpecLabels == LabelsInit /\ [][LabelsNext]_vars

HeaderInit == HeaderStart /\ StreamIdle /\ BatchIdle /\ ReplaceIdle /\ CopyIdle /\ SchemaIdle /\ JoinIdle /\ TypesIdle /\ GetIdle /\ CreateIdle /\ FileIdle /\ NameIdle /\ TxIdle /\ InsertIdle /\ EnsureIdle /\ LoadIdle /\ PgLoadIdle /\ DropIdle /\ PartIdle /\ MetaIdle /\ DbIdle /\ ChTxIdle /\ WhenIdle /\ PingIdle

SpecHeader == HeaderInit /\ [][HeaderNext]_vars

JoinInit == JoinStart /\ StreamIdle /\ BatchIdle /\ ReplaceIdle /\ CopyIdle /\ SchemaIdle /\ HeaderIdle /\ TypesIdle /\ GetIdle /\ CreateIdle /\ FileIdle /\ NameIdle /\ TxIdle /\ InsertIdle /\ EnsureIdle /\ LoadIdle /\ PgLoadIdle /\ DropIdle /\ PartIdle /\ MetaIdle /\ DbIdle /\ ChTxIdle /\ WhenIdle /\ PingIdle

SpecJoin == JoinInit /\ [][JoinNext]_vars

TypesInit == TypesStart /\ StreamIdle /\ BatchIdle /\ ReplaceIdle /\ CopyIdle /\ SchemaIdle /\ HeaderIdle /\ JoinIdle /\ GetIdle /\ CreateIdle /\ FileIdle /\ NameIdle /\ TxIdle /\ InsertIdle /\ EnsureIdle /\ LoadIdle /\ PgLoadIdle /\ DropIdle /\ PartIdle /\ MetaIdle /\ DbIdle /\ ChTxIdle /\ WhenIdle /\ PingIdle

SpecTypes == TypesInit /\ [][TypesNext]_vars

GetInit ==
    /\ GetStart
    /\ SchemaStart /\ sAdapter = "bigquery"
    /\ StreamIdle /\ BatchIdle /\ ReplaceIdle /\ CopyIdle /\ HeaderIdle /\ JoinIdle /\ TypesIdle /\ CreateIdle /\ FileIdle /\ NameIdle /\ TxIdle /\ InsertIdle /\ EnsureIdle /\ LoadIdle /\ PgLoadIdle /\ DropIdle /\ PartIdle /\ MetaIdle /\ DbIdle /\ ChTxIdle /\ WhenIdle /\ PingIdle

SpecGet == GetInit /\ [][GetNext]_vars

CreateInit == CreateStart /\ StreamIdle /\ BatchIdle /\ ReplaceIdle /\ CopyIdle /\ SchemaIdle /\ HeaderIdle /\ JoinIdle /\ TypesIdle /\ GetIdle /\ FileIdle /\ NameIdle /\ TxIdle /\ InsertIdle /\ EnsureIdle /\ LoadIdle /\ PgLoadIdle /\ DropIdle /\ PartIdle /\ MetaIdle /\ DbIdle /\ ChTxIdle /\ WhenIdle /\ PingIdle

SpecCreate == CreateInit /\ [][CreateNext]_vars

FileInit == FileStart /\ StreamIdle /\ BatchIdle /\ ReplaceIdle /\ CopyIdle /\ SchemaIdle /\ HeaderIdle /\ JoinIdle /\ TypesIdle /\ GetIdle /\ CreateIdle /\ NameIdle /\ TxIdle /\ InsertIdle /\ EnsureIdle /\ LoadIdle /\ PgLoadIdle /\ DropIdle /\ PartIdle /\ MetaIdle /\ DbIdle /\ ChTxIdle /\ WhenIdle /\ PingIdle

SpecFile == FileInit /\ [][FileNext]_vars

NameInit == NameStart /\ StreamIdle /\ BatchIdle /\ ReplaceIdle /\ CopyIdle /\ SchemaIdle /\ HeaderIdle /\ JoinIdle /\ TypesIdle /\ GetIdle /\ CreateIdle /\ FileIdle /\ TxIdle /\ InsertIdle /\ EnsureIdle /\ LoadIdle /\ PgLoadIdle /\ DropIdle /\ PartIdle /\ MetaIdle /\ DbIdle /\ ChTxIdle /\ WhenIdle /\ PingIdle

SpecName == NameInit /\ [][NameNext]_vars

TxInit == TxStart /\ StreamIdle /\ BatchIdle /\ ReplaceIdle /\ CopyIdle /\ SchemaIdle /\ HeaderIdle /\ JoinIdle /\ TypesIdle /\ GetIdle /\ CreateIdle /\ FileIdle /\ NameIdle /\ InsertIdle /\ EnsureIdle /\ LoadIdle /\ PgLoadIdle /\ DropIdle /\ PartIdle /\ MetaIdle /\ DbIdle /\ ChTxIdle /\ WhenIdle /\ PingIdle

SpecTx == TxInit /\ [][TxNext]_vars

InsertInit == InsertStart /\ StreamIdle /\ BatchIdle /\ ReplaceIdle /\ CopyIdle /\ SchemaIdle /\ HeaderIdle /\ JoinIdle /\ TypesIdle /\ GetIdle /\ CreateIdle /\ FileIdle /\ NameIdle /\ TxIdle /\ EnsureIdle /\ LoadIdle /\ PgLoadIdle /\ DropIdle /\ PartIdle /\ MetaIdle /\ DbIdle /\ ChTxIdle /\ WhenIdle /\ PingIdle

SpecInsert == InsertInit /\ [][InsertNext]_vars

EnsureInit == EnsureStart /\ StreamIdle /\ BatchIdle /\ ReplaceIdle /\ CopyIdle /\ SchemaIdle /\ HeaderIdle /\ JoinIdle /\ TypesIdle /\ GetIdle /\ CreateIdle /\ FileIdle /\ NameIdle /\ TxIdle /\ InsertIdle /\ LoadIdle /\ PgLoadIdle /\ DropIdle /\ PartIdle /\ MetaIdle /\ DbIdle /\ ChTxIdle /\ WhenIdle /\ PingIdle

SpecEnsure == EnsureInit /\ [][EnsureNext]_vars

LoadInit == LoadStart /\ StreamIdle /\ BatchIdle /\ ReplaceIdle /\ CopyIdle /\ SchemaIdle /\ HeaderIdle /\ JoinIdle /\ TypesIdle /\ GetIdle /\ CreateIdle /\ FileIdle /\ NameIdle /\ TxIdle /\ InsertIdle /\ EnsureIdle /\ PgLoadIdle /\ DropIdle /\ PartIdle /\ MetaIdle /\ DbIdle /\ ChTxIdle /\ WhenIdle /\ PingIdle

SpecLoad == LoadInit /\ [][LoadNext]_vars

PgLoadInit == PgLoadStart /\ StreamIdle /\ BatchIdle /\ ReplaceIdle /\ CopyIdle /\ SchemaIdle /\ HeaderIdle /\ JoinIdle /\ TypesIdle /\ GetIdle /\ CreateIdle /\ FileIdle /\ NameIdle /\ TxIdle /\ InsertIdle /\ EnsureIdle /\ LoadIdle /\ DropIdle /\ PartIdle /\ MetaIdle /\ DbIdle /\ ChTxIdle /\ WhenIdle /\ PingIdle

SpecPgLoad == PgLoadInit /\ [][PgLoadNext]_vars

DropInit == DropStart /\ StreamIdle /\ BatchIdle /\ ReplaceIdle /\ CopyIdle /\ SchemaIdle /\ HeaderIdle /\ JoinIdle /\ TypesIdle /\ GetIdle /\ CreateIdle /\ FileIdle /\ NameIdle /\ TxIdle /\ InsertIdle /\ EnsureIdle /\ LoadIdle /\ PgLoadIdle /\ PartIdle /\ MetaIdle /\ DbIdle /\ ChTxIdle /\ WhenIdle /\ PingIdle

SpecDrop == DropInit /\ [][DropNext]_vars

PartInit == PartStart /\ StreamIdle /\ BatchIdle /\ ReplaceIdle /\ CopyIdle /\ SchemaIdle /\ HeaderIdle /\ JoinIdle /\ TypesIdle /\ GetIdle /\ CreateIdle /\ FileIdle /\ NameIdle /\ TxIdle /\ InsertIdle /\ EnsureIdle /\ LoadIdle /\ PgLoadIdle /\ DropIdle /\ MetaIdle /\ DbIdle /\ ChTxIdle /\ WhenIdle /\ PingIdle

SpecPart == PartInit /\ [][PartNext]_vars

MetaInit == MetaStart /\ StreamIdle /\ BatchIdle /\ ReplaceIdle /\ CopyIdle /\ SchemaIdle /\ HeaderIdle /\ JoinIdle /\ TypesIdle /\ GetIdle /\ CreateIdle /\ FileIdle /\ NameIdle /\ TxIdle /\ InsertIdle /\ EnsureIdle /\ LoadIdle /\ PgLoadIdle /\ DropIdle /\ PartIdle /\ DbIdle /\ ChTxIdle /\ WhenIdle /\ PingIdle

SpecMeta == MetaInit /\ [][MetaNext]_vars

DbInit == DbStart /\ StreamIdle /\ BatchIdle /\ ReplaceIdle /\ CopyIdle /\ SchemaIdle /\ HeaderIdle /\ JoinIdle /\ TypesIdle /\ GetIdle /\ CreateIdle /\ FileIdle /\ NameIdle /\ TxIdle /\ InsertIdle /\ EnsureIdle /\ LoadIdle /\ PgLoadIdle /\ DropIdle /\ PartIdle /\ MetaIdle /\ ChTxIdle /\ WhenIdle /\ PingIdle

SpecDb == DbInit /\ [][DbNext]_vars

ChTxInit == ChTxStart /\ StreamIdle /\ BatchIdle /\ ReplaceIdle /\ CopyIdle /\ SchemaIdle /\ HeaderIdle /\ JoinIdle /\ TypesIdle /\ GetIdle /\ CreateIdle /\ FileIdle /\ NameIdle /\ TxIdle /\ InsertIdle /\ EnsureIdle /\ LoadIdle /\ PgLoadIdle /\ DropIdle /\ PartIdle /\ MetaIdle /\ DbIdle /\ WhenIdle /\ PingIdle

SpecChTx == ChTxInit /\ [][ChTxNext]_vars

WhenInit == WhenStart /\ StreamIdle /\ BatchIdle /\ ReplaceIdle /\ CopyIdle /\ SchemaIdle /\ HeaderIdle /\ JoinIdle /\ TypesIdle /\ GetIdle /\ CreateIdle /\ FileIdle /\ NameIdle /\ TxIdle /\ InsertIdle /\ EnsureIdle /\ LoadIdle /\ PgLoadIdle /\ DropIdle /\ PartIdle /\ MetaIdle /\ DbIdle /\ ChTxIdle /\ PingIdle

SpecWhen == WhenInit /\ [][WhenNext]_vars

PingInit == PingStart /\ StreamIdle /\ BatchIdle /\ ReplaceIdle /\ CopyIdle /\ SchemaIdle /\ HeaderIdle /\ JoinIdle /\ TypesIdle /\ GetIdle /\ CreateIdle /\ FileIdle /\ NameIdle /\ TxIdle /\ InsertIdle /\ EnsureIdle /\ LoadIdle /\ PgLoadIdle /\ DropIdle /\ PartIdle /\ MetaIdle /\ DbIdle /\ ChTxIdle /\ WhenIdle

SpecPing == PingInit /\ [][PingNext]_vars

(***************************************************************************)
(* Claims about AbstractSQLStream, checked under SpecStream.               *)
(***************************************************************************)
Terminal == {"Completed", "Failed", "Aborted"}

\* C4: once the status is Completed, Failed or Aborted, no later call of
\* preprocess, postConsume or postComplete changes it.
C4_TerminalStatusSticky ==
    [][state.Status \in Terminal => state'.Status = state.Status]_vars

\* C5: preprocess on a stream that is not Active returns an error and no table
\* and leaves Status, ProcessedRows, SuccessfulRows, ErrorRowIndex and
\* LastError as they were.
C5_InactivePreprocessRejected ==
    (call.op = "preprocess" /\ call.pre.Status # "Active") =>
        /\ call.err # NoErr
        /\ call.table = "nil"
        /\ state = call.pre

C5_Witness ==
    /\ call.op = "preprocess"
    /\ call.pre.Status = "Failed"
    /\ call.pre.ProcessedRows >= 2
    /\ call.pre.SuccessfulRows = 1

\* C6: a created stream is Active with all counters zero; on an Active stream
\* postComplete(nil) gives Completed, postComplete(err) gives Failed with
\* LastError = err; the returned state is the stored one and the returned
\* error is the argument.
C6_CreateAndPostComplete ==
    /\ (call.op = "new" /\ Created) =>
          state = [Status |-> "Active", ProcessedRows |-> 0, SuccessfulRows |-> 0,
                   ErrorRowIndex |-> 0, LastError |-> NoErr]
    /\ (call.op = "postComplete" /\ call.pre.Status = "Active") =>
          /\ call.arg = NoErr => state.Status = "Completed"
          /\ call.arg # NoErr => (state.Status = "Failed" /\ state.LastError = call.arg)
          /\ call.retState = state
          /\ call.err = call.arg

C6_Witness ==
    /\ call.op = "postComplete"
    /\ call.pre.Status = "Active"
    /\ call.arg \in Errs
    /\ call.pre.LastError \in Errs \ {call.arg}
    /\ state.SuccessfulRows >= 1

\* C7: after any sequence of Consume calls, ProcessedRows equals SuccessfulRows
\* plus the number of Consume calls that returned an error.
C7_ProcessedIsSuccessfulPlusErrors ==
    pc = "idle" => state.ProcessedRows = state.SuccessfulRows + nErrors

\* C8: in stream mode a failed insert sets LastError and ErrorRowIndex (the
\* 1-based position of the row), returns the error, leaves SuccessfulRows and
\* the Active status (the next Consume is accepted); a successful insert adds
\* one to SuccessfulRows and keeps LastError and ErrorRowIndex.
C8_RowOutcome ==
    (call.op = "postConsume" /\ call.insert) =>
        /\ call.arg # NoErr =>
              /\ state.LastError = call.arg
              /\ state.ErrorRowIndex = nRows
              /\ call.err = call.arg
              /\ state.SuccessfulRows = call.pre.SuccessfulRows
              /\ state.Status = "Active"
              /\ preprocess(state, "good").err = NoErr
        /\ call.arg = NoErr =>
              /\ state.SuccessfulRows = call.pre.SuccessfulRows + 1
              /\ state.LastError = call.pre.LastError
              /\ state.ErrorRowIndex = call.pre.ErrorRowIndex
              /\ call.err = NoErr

C8_Witness ==
    /\ call.op = "postConsume"
    /\ call.insert
    /\ call.arg \in Errs
    /\ nRows = 3
    /\ state.SuccessfulRows = 1
    /\ call.pre.ErrorRowIndex = 2

(***************************************************************************)
(* Claims about Complete in Batch mode, checked under SpecBatch.           *)
(***************************************************************************)
\* C1: in Batch mode, whichever step of Complete fails, the destination holds
\* either all rows of the batch or none, and none when Complete failed.
C1_BatchAllOrNothing ==
    /\ bDest \in {bDest0, bDest0 \o bFile}
    /\ (bPc = "done" /\ bErr # NoErr) => bDest = bDest0

(***************************************************************************)
(* Claim about newAbstractStream, checked under SpecStream.                *)
(***************************************************************************)
\* C19: with the MergeRows option and no (or an empty) primary key option
\* newAbstractStream returns an error and the zero stream, on which no method
\* ever acts; with MergeRows and a primary key, or without MergeRows, it
\* returns no error and a stream in status Active.
C19_MergeRowsRequiresPrimaryKey ==
    IF opts.merge /\ opts.pk = {}
    THEN /\ newErr # NoErr
         /\ state = ZeroState
         /\ call.op = "new"
    ELSE /\ newErr = NoErr
         /\ call.op = "new" => (state.Status = "Active" /\ call.retState = state)

\* newAbstractStream was called with MergeRows and no primary key
C19_Witness ==
    /\ opts.merge /\ opts.pk = {}
    /\ call.op = "new" /\ call.err = "merge_requires_pk"

(***************************************************************************)
(* Claims about ReplaceTable, checked under SpecReplace.                   *)
(***************************************************************************)
\* C2: while ReplaceTable(t, tmp, dropOld = true) runs on an existing target,
\* a reader of the target sees at every instant exactly the old contents or
\* exactly the replacement's: never an empty, missing or mixed table.
C2_ReaderSeesOldOrNew ==
    (rDropOld /\ rPc # "idle" /\ rTables0["t"] # NoTable) =>
        \A seen \in Readings : seen \in {rTables0["t"], rTables0["tmp"]}

\* C3: when ReplaceTable(t, tmp, dropOld = true) returns an error, the target
\* has its original contents and the replacement table no longer exists.
C3_FailedReplaceLeavesTarget ==
    (rDropOld /\ rPc = "done" /\ rErr # NoErr) =>
        /\ rTables["t"] = rTables0["t"]
        /\ rTables["tmp"] = NoTable

\* C18: after a successful ReplaceTable(t, tmp, dropOld = true), whether t
\* existed before or not, t exists and holds exactly the replacement's rows
\* and no table named tmp exists; on a ClickHouse cluster the same holds for
\* dist_t and dist_tmp.
C18_SuccessfulReplaceInstalls ==
    (rDropOld /\ rPc = "done" /\ rErr = NoErr) =>
        /\ rTables["t"] = rTables0["tmp"]
        /\ rTables["tmp"] = NoTable
        /\ OnCluster => (ReadDist = rTables0["tmp"] /\ rDist["tmp"] = NoDist)

(***************************************************************************)
(* Claims about CopyTables, checked under SpecCopy.                        *)
(***************************************************************************)
\* dst is the upsert of src into dst0: one row per key of src, equal to the
\* src row; one unchanged row per key only in dst0; no other row
IsUpsertOf(dst, dst0, src) ==
    /\ KeysOf(dst) = KeysOf(dst0) \cup KeysOf(src)
    /\ \A key \in KeysOf(dst) :
          /\ Cardinality(RowsWithKey(dst, key)) = 1
          /\ RowOf(dst, key) = IF key \in KeysOf(src) THEN RowOf(src, key)
                               ELSE RowOf(dst0, key)

\* dst is dst0 with every src row added and no old row changed
IsAppendOf(dst, dst0, src) ==
    /\ Len(dst) = Len(dst0) + Len(src)
    /\ SubSeq(dst, 1, Len(dst0)) = dst0
    /\ SubSeq(dst, Len(dst0) + 1, Len(dst)) = src

\* C9: on every adapter CopyTables with merge = true is an upsert keyed by the
\* primary key (no key twice, src rows win, other rows unchanged), and with
\* merge = false it appends every src row and changes no existing row.
C9_CopyTablesMergeIsUpsert ==
    (cPc = "done" /\ cErr = NoErr) =>
        IF cMerge THEN IsUpsertOf(cDst, cDst0, cSrc)
        ELSE IsAppendOf(cDst, cDst0, cSrc)

(***************************************************************************)
(* Claims about CreateTable and PatchTableSchema, checked under SpecSchema.*)
(***************************************************************************)
\* C10: after a CreateTable or PatchTableSchema call every column the table
\* had before the call is still there with the same type, and a
\* PatchTableSchema call that returned no error added exactly the columns of
\* its patch.
C10_ColumnsNeverRemoved ==
    (sCall.op \in {"CreateTable", "PatchTableSchema"} /\ sCall.pre.exists) =>
        /\ sTable.exists
        /\ \A i \in 1 .. Len(sCall.pre.fields) :
              \E j \in 1 .. Len(sTable.fields) : sTable.fields[j] = sCall.pre.fields[i]
        /\ (sCall.op = "PatchTableSchema" /\ sCall.err = NoErr) =>
              FieldNames(sTable.fields) =
                  FieldNames(sCall.pre.fields)
                      \cup {ColumnNames[i] : i \in {n \in 1 .. MaxCols : sCall.cols[n] # Absent}}

\* a patch was applied to a table that already had columns
C10_Witness ==
    /\ sCall.op = "PatchTableSchema"
    /\ sCall.err = NoErr
    /\ Len(sCall.pre.fields) > 0
    /\ Len(sTable.fields) > Len(sCall.pre.fields)

(***************************************************************************)
(* Claims about the table preprocess builds, checked under SpecHeader.     *)
(***************************************************************************)
\* C11: the table built for the k-th object has a column for every field
\* seen in objects 1..k, and a column without override has the type mapped
\* from the join of the types observed for the field in objects 1..k.
C11_TableCoversAllObjects ==
    hPc \in {"insert", "idle"} =>
        \A f \in Fields :
            /\ (hHeader[f] # Absent) = (hTable[f] # NoColumn)
            /\ (hTable[f] # NoColumn /\ ~hTable[f].Override) =>
                  hTable[f].Type = GetTypesMapping(hAdapter)[hHeader[f]]

C12_JoinCommutativeAssociative ==
    LET a == jValues[1]
        b == jValues[2]
        c == jValues[3] IN
    /\ join(a, b) = join(b, a)
    /\ join(join(a, b), c) = join(a, join(b, c))
    /\ jLeft = {} => jType = join(join(a, b), c)

(***************************************************************************)
(* Claims about the type mappings, checked under SpecTypes.                *)
(***************************************************************************)
\* C13: in every adapter's mapping UNKNOWN has the SQL type of STRING; the
\* reverse mapping of BigQuery never yields UNKNOWN, it gives STRING for the
\* SQL type of UNKNOWN and gives back every other data type.
C13_UnknownMapsToString ==
    /\ SchemaToClickhouse["UNKNOWN"] = SchemaToClickhouse["STRING"]
    /\ SchemaToPostgres["UNKNOWN"] = SchemaToPostgres["STRING"]
    /\ SchemaToBigQueryString["UNKNOWN"] = SchemaToBigQueryString["STRING"]
    /\ \A t \in BigQuerySQLTypes : GetDataType(t) # "UNKNOWN"
    /\ Len(tOrder) = Cardinality(DataTypes) =>
          /\ GetSQLType("UNKNOWN") = GetSQLType("STRING")
          /\ GetDataType(GetSQLType("UNKNOWN")) = "STRING"
          /\ \A d \in DataTypes \ {"UNKNOWN"} : GetDataType(GetSQLType(d)) = d

\* init() has run and visited UNKNOWN after STRING
C13_Witness ==
    /\ Len(tOrder) = Cardinality(DataTypes)
    /\ \E i, k \in 1 .. Len(tOrder) :
          i < k /\ tOrder[i] = "STRING" /\ tOrder[k] = "UNKNOWN"
    /\ GetDataType("STRING") = "STRING"

(***************************************************************************)
(* Claims about the primary key of a BigQuery table, checked under         *)
(* SpecLabels.                                                             *)
(***************************************************************************)
\* C15: after a PatchTableSchema whose patch changes the primary key, a
\* following GetTableSchema returns the PKFields and PrimaryKeyName of the
\* patch, or no primary key when the patch only set DeletePkFields.
C15_PatchInstallsPrimaryKey ==
    LET newPk == sPk.PKFields # {} /\ sPk.PrimaryKeyName # "" IN
    (/\ sCall.op = "PatchTableSchema" /\ sCall.err = NoErr
     /\ sGot.err = NoErr
     /\ sPk.DeletePkFields \/ newPk) =>
        IF newPk
        THEN sGot.PKFields = sPk.PKFields /\ sGot.PrimaryKeyName = sPk.PrimaryKeyName
        ELSE sGot.PKFields = {} /\ sGot.PrimaryKeyName = ""

\* C16: the primary key written to the labels by CreateTable or by
\* PatchTableSchema (fields P, managed name N) is what GetTableSchema returns.
C16_PrimaryKeyLabelRoundTrip ==
    (/\ \/ sCall.op = "CreateTable" /\ ~sCall.pre.exists
        \/ sCall.op = "PatchTableSchema"
     /\ sCall.err = NoErr
     /\ sPk.PKFields # {} /\ sPk.PrimaryKeyName \in ManagedPkNames
     /\ sGot.err = NoErr) =>
        sGot.PKFields = sPk.PKFields /\ sGot.PrimaryKeyName = sPk.PrimaryKeyName

(***************************************************************************)
(* Claims about GetTableSchema, checked under SpecGet.                     *)
(***************************************************************************)
\* the table GetTableSchema returns for a name the warehouse has no table for
EmptyTable(got, name) ==
    /\ got.err = NoErr
    /\ got.Name = name
    /\ got.Columns = <<>>
    /\ got.PKFields = {}

\* C17: GetTableSchema on a table that does not exist returns without error
\* a Table with the requested name, no columns and no primary key; it
\* returns an error only when the warehouse call failed for another reason.
C17_MissingTableIsEmpty ==
    /\ (gGot # NotCalled /\ ~gTable.exists) =>
          IF gGot.fault THEN gGot.err # NoErr ELSE EmptyTable(gGot, gName)
    /\ (sGot # NotCalled /\ ~sTable.exists) =>
          IF sGot.fault THEN sGot.err # NoErr ELSE EmptyTable(sGot, "t")
    /\ (gGot # NotCalled /\ gGot.err # NoErr) => gGot.fault
    /\ (sGot # NotCalled /\ sGot.err # NoErr) => sGot.fault

\* GetTableSchema of the bigquery.go adapter and of another adapter returned
\* for a missing table
C17_Witness ==
    \/ sGot # NotCalled /\ ~sTable.exists /\ ~sGot.fault
    \/ gGot # NotCalled /\ ~gTable.exists /\ ~gGot.fault /\ gAdapter = "postgres"

(***************************************************************************)
(* Claim about BigQuery.CreateStream, checked under SpecCreate.            *)
(***************************************************************************)
\* C20: BigQuery.CreateStream with the row-at-a-time mode (Stream /
\* AutoCommit) returns the error BigQueryAutocommitUnsupported and no stream,
\* for every id, table name and option set; with one of the three batch
\* modes it returns the stream its constructor builds, and with any other
\* mode value an "unsupported bulk mode" error.
C20_BigQueryRejectsAutoCommit ==
    kCall # NoCreate =>
        CASE kCall.mode = "stream" ->
                 kGot.err = BigQueryAutocommitUnsupported /\ kGot.stream = NoStream
          [] kCall.mode \in {"batch", "replace_table", "replace_partition"} ->
                 /\ kGot.err \notin {BigQueryAutocommitUnsupported, UnsupportedBulkMode}
                 /\ kGot.err = NoErr => kGot.stream # NoStream
          [] OTHER ->
                 kGot.err = UnsupportedBulkMode /\ kGot.stream = NoStream

C22_StagingFileOwnedByOneStream ==
    \A s1, s2 \in Slots :
        (/\ s1 # s2
         /\ fStreams[s1].status = "Active" /\ fStreams[s2].status = "Active"
         /\ \/ fStreams[s1].id # fStreams[s2].id
            \/ fStreams[s1].tableName # fStreams[s2].tableName
            \/ fStreams[s1].mode # fStreams[s2].mode)
        => fStreams[s1].file # fStreams[s2].file

\* C23: the staging file name of every stream is
\* bulker_<mode>_<sanitized-table>_<sanitized-stream-id> and nothing else.
C23_StagingFileNameFormat ==
    \A s \in Slots :
        fStreams[s].status # "none" =>
            fStreams[s].file =
                <<"bulker", "_", fStreams[s].mode, "_">>
                    \o SanitizeString(fStreams[s].tableName) \o <<"_">>
                    \o SanitizeString(fStreams[s].id)

C25_ColumnNamesUnique ==
    \A i, j \in DOMAIN nSchema : i # j => nSchema[i] # nSchema[j]

(***************************************************************************)
(* Claim about OpenTx, checked under SpecTx.                               *)
(***************************************************************************)
\* C26: on BigQuery always, and on ClickHouse whenever a cluster is
\* configured, OpenTx opens no database transaction: the wrapper it returns
\* is a no-op wrapper, and its commit and rollback change nothing in the
\* warehouse.
C26_NoOpTransactionWrapper ==
    xAdapter \in {"bigquery", "bigquery_v1", "clickhouse_cluster"} =>
        /\ xTx.kind # "sql"
        /\ xCall.op \in {"commit", "rollback"} => xDb = xCall.before

(***************************************************************************)
(* Claims about BigQuery.Insert, checked under SpecInsert.                 *)
(***************************************************************************)
\* C27: no insertItems call of BigQuery.Insert carries more than 500 items,
\* and none carries zero items.
C27_ChunksOfAtMost500 ==
    \A i \in DOMAIN iCalls :
        /\ Len(iCalls[i].items) <= 500
        /\ Len(iCalls[i].items) > 0

\* the rows of the insertItems calls, one call after the other
RECURSIVE RowsSent(_)
RowsSent(calls) ==
    IF calls = <<>> THEN <<>>
    ELSE RowsSent(SubSeq(calls, 1, Len(calls) - 1)) \o calls[Len(calls)].items

\* C29: the chunks BigQuery.Insert sends are, one after the other, a prefix
\* of the objects in their order; when Insert returns success they are the
\* whole list; when a chunk fails Insert returns an error and that chunk is
\* the last one sent.
C29_InsertKeepsOrderExactlyOnce ==
    LET sent == RowsSent(iCalls) IN
    /\ Len(sent) <= Len(iObjects)
    /\ sent = SubSeq(iObjects, 1, Len(sent))
    /\ (iPc = "done" /\ iErr = NoErr) => sent = iObjects
    /\ \A i \in DOMAIN iCalls :
          ~iCalls[i].ok => (i = Len(iCalls) /\ iPc = "done" /\ iErr # NoErr)
    /\ iErr # NoErr => (iCalls # <<>> /\ ~iCalls[Len(iCalls)].ok)

\* Insert of more objects than two chunks hold has returned success
C29_Witness ==
    /\ iPc = "done" /\ iErr = NoErr
    /\ Len(iCalls) = 3

C30_CacheDescribesWarehouse ==
    eCache.known => eCache.cols \subseteq Visible

(***************************************************************************)
(* Claims about BigQuery.LoadTable, checked under SpecLoad.                *)
(***************************************************************************)
\* C31: the schema given to the load job lists every field of the
\* destination table exactly once, with the sorted column names of the
\* target table in the first positions, also when the destination table has
\* more columns than the loaded table; when a loaded column is missing from
\* the destination table, LoadTable returns an error and starts no load job.
C31_LoadSchemaIsReordering ==
    LET sorted == SortedNames(lColumns)
        dest == {lDest[i] : i \in DOMAIN lDest} IN
    /\ lJob =>
          /\ Len(lSchema) = Len(lDest)
          /\ {lSchema[i] : i \in DOMAIN lSchema} = dest
          /\ SubSeq(lSchema, 1, Len(sorted)) = sorted
    /\ (lPc = "done" /\ ~(lColumns \subseteq dest)) => (lErr # NoErr /\ ~lJob)

(***************************************************************************)
(* Claims about Postgres.LoadTable, checked under SpecPgLoad.              *)
(***************************************************************************)
\* the data records of a file, as the arguments they are to be loaded with
DataArgs(file) == [i \in 1 .. Len(file) - 1 |-> copyArgs(file[i + 1])]

\* C32: the header row is never loaded as data; the records sent are the
\* data records in file order, each once, with \N as NULL and every other
\* field as its string; when LoadTable returns success they are all the data
\* records; any read or execution error makes LoadTable return an error.
C32_CsvLoadedFaithfully ==
    /\ \A i \in DOMAIN pSent : pSent[i] # copyArgs(CsvHeader)
    /\ pFile # <<>> =>
          /\ Len(pSent) <= Len(pFile) - 1
          /\ pSent = SubSeq(DataArgs(pFile), 1, Len(pSent))
    /\ (pPc = "done" /\ pErr = NoErr /\ pFile # <<>>) => pSent = DataArgs(pFile)
    /\ (pPc = "done" /\ pFault) => pErr # NoErr

(***************************************************************************)
(* Claims about DropTable, checked under SpecDrop.                         *)
(***************************************************************************)
\* C33: when the warehouse answers, DropTable(name, ifExists = true) on a
\* table that does not exist returns no error and changes nothing,
\* DropTable(name, ifExists = false) on a table that does not exist returns
\* an error, and DropTable on an existing table removes it.
C33_DropTableHonoursIfExists ==
    (dCall.err # "not_called" /\ dCall.err # "idle" /\ ~dCall.fault) =>
        /\ (dCall.name \notin dCall.pre /\ dCall.ifExists) =>
              (dCall.err = NoErr /\ dTables = dCall.pre)
        /\ (dCall.name \notin dCall.pre /\ ~dCall.ifExists) => dCall.err # NoErr
        /\ dCall.name \in dCall.pre => (dCall.err = NoErr /\ dCall.name \notin dTables)

(***************************************************************************)
(* Claims about BigQuery.DeletePartition, checked under SpecPart.          *)
(***************************************************************************)
\* the number of partitions of a window of the granularity
PartitionCount(g) ==
    CASE g = "WEEK" -> 7 [] g = "QUARTER" -> 3 [] g = "ALL" -> 0 [] OTHER -> 1

\* b is the id of the day after the day with id a
IsNextDay(a, b) ==
    LET y == a \div 10000
        m == (a \div 100) % 100
        d == a % 100 IN
    b = IF d < DaysIn(y, m) THEN a + 1
        ELSE IF m < 12 THEN (y * 100 + m + 1) * 100 + 1
        ELSE ((y + 1) * 100 + 1) * 100 + 1

\* b is the id of the month after the month with id a
IsNextMonth(a, b) ==
    b = IF a % 100 < 12 THEN a + 1 ELSE ((a \div 100) + 1) * 100 + 1

\* C34: the Delete calls go, in order, to the partitions of the window: one
\* id for HOUR, DAY, MONTH and YEAR, 7 consecutive days for WEEK, 3
\* consecutive months for QUARTER, none for ALL, starting at the lower bound
\* of the window; after a 404 the loop goes on; any other error is the last
\* call and is returned; without such an error every partition of the window
\* was tried and the call returns success.
C34_DeletesPartitionsOfWindow ==
    LET l == Lower(qGranularity, qValue)
        n == Len(qTried) IN
    /\ n <= PartitionCount(qGranularity)
    /\ n >= 1 => qTried[1].id =
          CASE qGranularity = "HOUR" -> ((l.y * 100 + l.m) * 100 + l.d) * 100 + l.h
            [] qGranularity \in {"DAY", "WEEK"} -> (l.y * 100 + l.m) * 100 + l.d
            [] qGranularity \in {"MONTH", "QUARTER"} -> l.y * 100 + l.m
            [] OTHER -> l.y
    /\ \A i \in 1 .. n - 1 :
          /\ qGranularity = "WEEK" => IsNextDay(qTried[i].id, qTried[i + 1].id)
          /\ qGranularity = "QUARTER" => IsNextMonth(qTried[i].id, qTried[i + 1].id)
          /\ qTried[i].outcome # "error"
    /\ (n >= 1 /\ qTried[n].outcome = "error") => (qPc = "done" /\ qErr # NoErr)
    /\ qErr # NoErr => (n >= 1 /\ qTried[n].outcome = "error")
    /\ (qPc = "done" /\ qErr = NoErr) => n = PartitionCount(qGranularity)

\* a week that reaches into the next year was deleted, one of its days
\* being skipped as not found
C34_Witness ==
    /\ qPc = "done" /\ qErr = NoErr
    /\ qGranularity = "WEEK" /\ Len(qTried) = 7
    /\ qTried[1].id = 20241230 /\ qTried[7].id = 20250105
    /\ qTried[3].outcome = "404" /\ qTried[4].outcome = "ok"

(***************************************************************************)
(* Claims about the partitioning set by BigQuery.CreateTable, checked      *)
(* under SpecMeta.                                                         *)
(***************************************************************************)
\* C35: a table with a partition field and a granularity other than ALL is
\* created with a time partitioning type that is not the empty value: daily
\* for DAY and WEEK, monthly for MONTH and QUARTER, yearly for YEAR; with
\* granularity ALL, or with neither a partition field nor a timestamp
\* column, no time partitioning is set.
C35_PartitioningTypeDefined ==
    (mPc = "done" /\ mErr = NoErr) =>
        LET type == mMeta.TimePartitioning.Type IN
        /\ (mTable.Field # "" /\ mTable.Granularity # "ALL") =>
              /\ type \in {"HOUR", "DAY", "MONTH", "YEAR"}
              /\ mTable.Granularity \in {"DAY", "WEEK"} => type = "DAY"
              /\ mTable.Granularity \in {"MONTH", "QUARTER"} => type = "MONTH"
              /\ mTable.Granularity = "YEAR" => type = "YEAR"
        /\ (mTable.Field # "" /\ mTable.Granularity = "ALL") =>
              mMeta.TimePartitioning = NoTimePartitioning
        /\ (mTable.Field = "" /\ mTable.TimestampColumn = "") =>
              mMeta.TimePartitioning = NoTimePartitioning

(***************************************************************************)
(* Claims about AbstractSQLStream.init, checked under SpecDb.              *)
(***************************************************************************)
\* C36: init of a stream calls InitDatabase exactly when no earlier init of
\* that stream has succeeded in calling it; an init that does not call it
\* returns nil, and one that calls it returns what InitDatabase returned, so
\* that after a failure the next init calls InitDatabase again.
C36_InitDatabaseOncePerStream ==
    \A i \in DOMAIN initLog :
        LET succeeded == \E j \in 1 .. i - 1 :
                /\ initLog[j].stream = initLog[i].stream
                /\ initLog[j].called /\ initLog[j].dbErr = NoErr IN
        /\ initLog[i].called <=> ~succeeded
        /\ initLog[i].err = IF initLog[i].called THEN initLog[i].dbErr ELSE NoErr

\* a stream failed to initialize the database, then succeeded, and its next
\* init did not call InitDatabase, while the other stream did
C36_Witness ==
    /\ Len(initLog) = 4
    /\ initLog[1].stream = "s1" /\ initLog[1].called /\ initLog[1].err # NoErr
    /\ initLog[2].stream = "s1" /\ initLog[2].called /\ initLog[2].err = NoErr
    /\ initLog[3].stream = "s1" /\ ~initLog[3].called /\ initLog[3].dbErr # NoErr
    /\ initLog[4].stream = "s2" /\ initLog[4].called

(***************************************************************************)
(* Claims about the transaction of ClickHouse.Insert and LoadTable,        *)
(* checked under SpecChTx.                                                 *)
(***************************************************************************)
\* C37: when BeginTx fails, Insert and LoadTable return an error without
\* preparing or executing a statement and without calling a method of the
\* missing transaction, and the destination is unchanged.
C37_BeginTxFailureReturned ==
    uTx = "nil" =>
        /\ uPc # "panic"
        /\ uPc = "done" => uErr # NoErr
        /\ uLog = <<>>
        /\ uDest = <<>>

(***************************************************************************)
(* Claims about BigQuery.toWhenConditions and Delete, checked under        *)
(* SpecWhen.                                                               *)
(***************************************************************************)
\* whether a row satisfies a condition of the WhenConditions
ConditionHolds(row, condition) ==
    CASE clauseToLower(condition.Clause) = "is null" -> row[condition.Field] = Null
      [] clauseToLower(condition.Clause) = "is not null" -> row[condition.Field] # Null
      [] OTHER -> row[condition.Field] = condition.Value

\* whether a row satisfies the WhenConditions
ConditionsHold(row, conditions) ==
    IF conditions.JoinCondition = "OR" /\ Len(conditions.Conditions) >= 2
    THEN \E i \in DOMAIN conditions.Conditions : ConditionHolds(row, conditions.Conditions[i])
    ELSE \A i \in DOMAIN conditions.Conditions : ConditionHolds(row, conditions.Conditions[i])

\* C38: the WHERE text of Delete has one clause per condition, in order,
\* "is null" and "is not null" clauses without a parameter and every other
\* clause with one; the rows Delete removes all satisfy the conditions; a
\* Delete whose text has no clause returns an error and runs no statement.
C38_WhereKeepsEveryCondition ==
    wPc = "done" =>
        LET conditions == wConditions.Conditions
            n == Len(conditions)
            nullTests == {i \in 1 .. n :
                clauseToLower(conditions[i].Clause) \in {"is null", "is not null"}} IN
        /\ Len(wCall.text) = IF n = 0 THEN 0 ELSE 2 * n - 1
        /\ Len(wCall.text) = 2 * n - 1 => \A i \in 1 .. n :
              /\ wCall.text[2 * i - 1].Column = conditions[i].Field
              /\ wCall.text[2 * i - 1].Clause = conditions[i].Clause
              /\ (wCall.text[2 * i - 1].Param = "") <=> (i \in nullTests)
        /\ Len(wCall.values) = n - Cardinality(nullTests)
        /\ \A row \in WhenRows \ wTable : ConditionsHold(row, wConditions)
        /\ Len(wCall.text) = 0 => (wCall.err # NoErr /\ ~wCall.ran)

(***************************************************************************)
(* Claims about BigQuery.Ping, checked under SpecPing.                     *)
(***************************************************************************)
\* C39: a Ping whose probe query failed returns an error, also when the
\* client was created anew; Ping returns nil only when its probe query
\* succeeded or, having no client, when it created one.
C39_PingReportsFailedProbe ==
    \A i \in DOMAIN zCalls :
        /\ zCalls[i].probe = "failed" => zCalls[i].err # NoErr
        /\ zCalls[i].err = NoErr =>
              \/ zCalls[i].probe = "ok"
              \/ (~zCalls[i].hadClient /\ zCalls[i].created)

====
